---------------------------- MODULE Spec2Model ----------------------------
(***************************************************************************)
(* A model of the geometry pipeline of city-to-print: polygon clipping,    *)
(* ring assembly, coastline closing, scaling, line buffering               *)
(* (geometryUtils.ts, useOverpassData.ts) and of the retry chain of the    *)
(* useOverpassData hook.                                                   *)
(*                                                                         *)
(* Real numbers are exact rationals <<n, d>> with d > 0 in lowest terms,   *)
(* unless a definition says that it models IEEE binary64 rounding.         *)
(***************************************************************************)
EXTENDS Integers, Sequences, FiniteSets, TLC

VARIABLES
    pc,                          \* "start" before a function is applied, "done" after
    poly, rect, clipped,         \* clipPolygon: its arguments and its result
    memberWays, nodeMap, rings,  \* assembleRings: its arguments and its result
    coastlineWays, bounds,       \* buildSeaPolygons: its arguments (with nodeMap),
    seaPolygons, seaClosings,    \*   its result, and how each segment was closed
    line, halfWidthMm, strip,    \* bufferLineToPolygon: its arguments and its result
    selection, scaled,           \* computeScale in binary64: its argument and its result
    elements, randoms, scene,    \* parseElements: its arguments (with bounds), the
                                 \*   values Math.random returns to it, and its result
    loading, error, sceneData,   \* useOverpassData: the hook's state,
    retryAttempt, abortRef,      \*   the controller of the latest fetchData call,
    calls, lastStep,             \*   the fetchData calls, and what the last step did
    tagSet, classified,          \* classify: its argument and its result
    heightScale, heightResult    \* buildingHeightMm in binary64: its arguments (with
                                 \*   tagSet and randoms) and its result

clipVars == <<poly, rect, clipped>>
ringVars == <<memberWays, rings>>
seaVars == <<coastlineWays, seaPolygons, seaClosings>>
bufferVars == <<line, halfWidthMm, strip>>
scaleVars == <<selection, scaled>>
parseVars == <<elements, randoms, scene>>
hookVars == <<loading, error, sceneData, retryAttempt, abortRef, calls, lastStep>>
tagVars == <<tagSet, classified, heightScale, heightResult>>
vars == <<pc, clipVars, ringVars, seaVars, bufferVars, scaleVars, parseVars, hookVars,
          tagVars, nodeMap, bounds>>

\* the variables of the components a specification does not exercise
ClipIdle == poly = <<>> /\ rect = <<>> /\ clipped = <<>>
RingIdle == memberWays = <<>> /\ rings = <<>>
SeaIdle == coastlineWays = <<>> /\ seaPolygons = <<>> /\ seaClosings = <<>>
BufferIdle == line = <<>> /\ halfWidthMm = <<>> /\ strip = <<>>
ScaleIdle == selection = <<>> /\ scaled = <<>>
ParseIdle == elements = <<>> /\ randoms = <<>> /\ scene = <<>>
HookIdle ==
    /\ loading = <<>> /\ error = <<>> /\ sceneData = <<>> /\ retryAttempt = <<>>
    /\ abortRef = <<>> /\ calls = <<>> /\ lastStep = <<>>
TagIdle ==
    tagSet = <<>> /\ classified = <<>> /\ heightScale = <<>> /\ heightResult = <<>>
NoNodeMap == nodeMap = <<>>
NoBounds == bounds = <<>>

(***************************************************************************)
(* Values and sequences                                                    *)
(***************************************************************************)
\* F applied to the value of e: a local constant, evaluated once
Let(e, F(_)) == CHOOSE r \in {F(x) : x \in {e}} : TRUE

Reverse(s) == [i \in 1..Len(s) |-> s[Len(s) + 1 - i]]

Slice1(s) == IF Len(s) = 0 THEN <<>> ELSE Tail(s)

RECURSIVE SeqsUpTo(_, _)
SeqsUpTo(S, n) ==
    IF n = 0 THEN {<<>>}
    ELSE LET shorter == SeqsUpTo(S, n - 1)
         IN  shorter \cup {Append(s, x) : s \in {t \in shorter : Len(t) = n - 1}, x \in S}

(***************************************************************************)
(* Exact rational arithmetic                                               *)
(***************************************************************************)
AbsInt(i) == IF i < 0 THEN -i ELSE i

RECURSIVE GCD(_, _)
GCD(a, b) == IF b = 0 THEN a ELSE GCD(b, a % b)

\* n / d in lowest terms, for d # 0
Rat(n, d) ==
    LET s == IF d < 0 THEN -1 ELSE 1
        g == GCD(AbsInt(n), AbsInt(d))
    IN  <<(s * n) \div g, (s * d) \div g>>

R(i) == <<i, 1>>

\* NaN: what arithmetic on undefined yields.  It propagates through + - * /
\* and Math.sqrt, and every comparison with it is false.
NaN == <<0, 0>>
IsNaN(a) == a[2] = 0

RAdd(a, b) ==
    IF IsNaN(a) \/ IsNaN(b) THEN NaN
    ELSE LET g == GCD(a[2], b[2])
         IN  Rat(a[1] * (b[2] \div g) + b[1] * (a[2] \div g), (a[2] \div g) * b[2])

RNeg(a) == <<-a[1], a[2]>>

RSub(a, b) == RAdd(a, RNeg(b))

RMul(a, b) ==
    IF IsNaN(a) \/ IsNaN(b) THEN NaN
    ELSE LET g1 == GCD(AbsInt(a[1]), b[2])
             g2 == GCD(AbsInt(b[1]), a[2])
         IN  Rat((a[1] \div g1) * (b[1] \div g2), (a[2] \div g2) * (b[2] \div g1))

\* a division by zero has no value here: it stops the check
RDiv(a, b) ==
    IF IsNaN(a) \/ IsNaN(b) THEN NaN
    ELSE CASE b[1] # 0 -> RMul(a, Rat(b[2], b[1]))

RLt(a, b) == ~IsNaN(a) /\ ~IsNaN(b) /\ a[1] * b[2] < b[1] * a[2]
RLe(a, b) == ~IsNaN(a) /\ ~IsNaN(b) /\ a[1] * b[2] <= b[1] * a[2]
RGe(a, b) == RLe(b, a)
RGt(a, b) == RLt(b, a)
RAbs(a) == <<AbsInt(a[1]), a[2]>>
\* Math.max and Math.min of two numbers, neither NaN
RMax(a, b) == IF RGe(a, b) THEN a ELSE b
RMin(a, b) == IF RLe(a, b) THEN a ELSE b

\* the largest r in lo..hi with r * r <= n
RECURSIVE RootIn(_, _, _)
RootIn(n, lo, hi) ==
    IF lo >= hi THEN lo
    ELSE LET mid == (lo + hi + 1) \div 2
         IN  IF mid <= n \div mid THEN RootIn(n, mid, hi) ELSE RootIn(n, lo, mid - 1)

IsSquare(n) == LET r == RootIn(n, 0, n) IN r * r = n

\* the integer square root of a perfect square; of nothing else
IntSqrt(n) == CHOOSE r \in {RootIn(n, 0, n)} : r * r = n

\* Math.sqrt, on the rationals whose square root is rational
RSqrt(a) == IF IsNaN(a) THEN NaN ELSE <<IntSqrt(a[1]), IntSqrt(a[2])>>

\* an integer grid point as a Point2D
Pt(x, y) == <<R(x), R(y)>>

(***************************************************************************)
(* clipPolygon (geometryUtils.ts): Sutherland-Hodgman against the four     *)
(* half-planes, in the order left, right, bottom, top.                     *)
(***************************************************************************)
\* EdgeInside with the top pass accepting every vertex
EdgeInsideNoTop(e, p, r) ==
    CASE e = 1 -> RGe(p[1], r.minX)
      [] e = 2 -> RLe(p[1], r.maxX)
      [] e = 3 -> RGe(p[2], r.minY)
      [] e = 4 -> TRUE

\* EdgeInside with strict comparisons: a vertex on the boundary counts as outside
EdgeInsideStrict(e, p, r) ==
    CASE e = 1 -> RGt(p[1], r.minX)
      [] e = 2 -> RLt(p[1], r.maxX)
      [] e = 3 -> RGt(p[2], r.minY)
      [] e = 4 -> RLt(p[2], r.maxY)

\* edges[e](p).inside
EdgeInside(e, p, r) ==
    CASE e = 1 -> RGe(p[1], r.minX)
      [] e = 2 -> RLe(p[1], r.maxX)
      [] e = 3 -> RGe(p[2], r.minY)
      [] e = 4 -> RLe(p[2], r.maxY)

\* edges[e](p).intersect(a, b)
EdgeIntersect(e, a, b, r) ==
    CASE e = 1 -> LET t == RDiv(RSub(r.minX, a[1]), RSub(b[1], a[1]))
                  IN  <<r.minX, RAdd(a[2], RMul(t, RSub(b[2], a[2])))>>
      [] e = 2 -> LET t == RDiv(RSub(r.maxX, a[1]), RSub(b[1], a[1]))
                  IN  <<r.maxX, RAdd(a[2], RMul(t, RSub(b[2], a[2])))>>
      [] e = 3 -> LET t == RDiv(RSub(r.minY, a[2]), RSub(b[2], a[2]))
                  IN  <<RAdd(a[1], RMul(t, RSub(b[1], a[1]))), r.minY>>
      [] e = 4 -> LET t == RDiv(RSub(r.maxY, a[2]), RSub(b[2], a[2]))
                  IN  <<RAdd(a[1], RMul(t, RSub(b[1], a[1]))), r.maxY>>

\* what the inner loop pushes for input[i]
ClipVertex(input, i, e, r) ==
    LET current == input[i]
        prev == input[((i - 1 + Len(input) - 1) % Len(input)) + 1]
    IN  Let(EdgeInside(e, current, r), LAMBDA currIn :
        Let(EdgeInside(e, prev, r), LAMBDA prevIn :
            IF currIn
            THEN (IF ~prevIn THEN <<EdgeIntersect(e, prev, current, r)>> ELSE <<>>)
                 \o <<current>>
            ELSE IF prevIn THEN <<EdgeIntersect(e, prev, current, r)>> ELSE <<>>))

RECURSIVE ClipLoop(_, _, _, _)
ClipLoop(input, i, e, r) ==
    IF i > Len(input) THEN <<>>
    ELSE ClipVertex(input, i, e, r) \o ClipLoop(input, i + 1, e, r)

\* one pass of the outer loop: an empty output stays empty
ClipPass(input, e, r) == IF Len(input) = 0 THEN <<>> ELSE ClipLoop(input, 1, e, r)

\* clipPolygon without the pass against the right edge
clipPolygonNoRight(p, r) == ClipPass(ClipPass(ClipPass(p, 1, r), 3, r), 4, r)

clipPolygon(p, r) == ClipPass(ClipPass(ClipPass(ClipPass(p, 1, r), 2, r), 3, r), 4, r)

Rect(x0, y0, x1, y1) == [minX |-> R(x0), minY |-> R(y0), maxX |-> R(x1), maxY |-> R(y1)]

(***************************************************************************)
(* Bounds of the clipping specification                                    *)
(***************************************************************************)
MaxPolyLen == 4

\* vertices inside, on the boundary of, and outside the clip rectangles
ClipPoints ==
    {Pt(1, 1), Pt(0, 1), Pt(2, 2), Pt(-1, 1), Pt(3, 0), Pt(1, -2), Pt(2, 3), Pt(-1, -1)}

ClipRects == {Rect(0, 0, 2, 2), Rect(-1, 1, 3, 1), Rect(1, 0, 1, 3)}

ClipInit ==
    /\ TagIdle /\ RingIdle /\ SeaIdle /\ BufferIdle /\ ScaleIdle /\ ParseIdle /\ HookIdle
    /\ NoNodeMap /\ NoBounds
    /\ poly \in SeqsUpTo(ClipPoints, MaxPolyLen)
    /\ rect \in ClipRects
    /\ clipped = <<>>
    /\ pc = "start"

Clip ==
    /\ pc = "start"
    /\ pc' = "done"
    /\ clipped' = clipPolygon(poly, rect)
    /\ UNCHANGED <<tagVars, poly, rect, ringVars, seaVars, bufferVars, scaleVars, parseVars,
                   hookVars, nodeMap, bounds>>

SpecClip == ClipInit /\ [][Clip]_vars

InRect(p, r) ==
    /\ RLe(r.minX, p[1]) /\ RLe(p[1], r.maxX)
    /\ RLe(r.minY, p[2]) /\ RLe(p[2], r.maxY)

SeqRange(s) == {s[i] : i \in 1..Len(s)}

\* C1: every vertex of the result of clipPolygon, kept or inserted by a pass,
\* lies inside or on the clip rectangle.
C1_ClipContained ==
    pc = "done" => \A i \in 1..Len(clipped) : InRect(clipped[i], rect)

\* C1 witness: a result holding a kept vertex and an inserted intersection vertex
C1_Witness ==
    /\ pc = "done"
    /\ \E i \in 1..Len(clipped) : clipped[i] \in SeqRange(poly)
    /\ \E i \in 1..Len(clipped) : clipped[i] \notin SeqRange(poly)

IsClosedRing(p) == Len(p) >= 1 /\ p[1] = p[Len(p)]

\* C2: a closed ring whose vertices all lie inside or on the clip rectangle is
\* returned unchanged, vertex for vertex.
C2_ClipNoOp ==
    (/\ pc = "done"
     /\ IsClosedRing(poly)
     /\ \A i \in 1..Len(poly) : InRect(poly[i], rect)) => clipped = poly

\* C2 witness: a closed triangle with a vertex on the boundary, clipped to itself
C2_Witness ==
    /\ pc = "done"
    /\ IsClosedRing(poly)
    /\ Cardinality(SeqRange(poly)) = 3
    /\ \A i \in 1..Len(poly) : InRect(poly[i], rect)
    /\ \E i \in 1..Len(poly) : poly[i][1] = rect.minX
    /\ clipped = poly

(***************************************************************************)
(* assembleRings (useOverpassData.ts): chains member ways through shared   *)
(* endpoint node ids, then resolves each chain to coordinates.             *)
(***************************************************************************)
RemoveAt(s, i) == [j \in 1..(Len(s) - 1) |-> IF j < i THEN s[j] ELSE s[j + 1]]

MinOf(S) == CHOOSE x \in S : \A y \in S : x <= y

\* ExtendChain appending the whole segment, junction node included
RECURSIVE ExtendChainDupJunction(_, _)
ExtendChainDupJunction(chain, remaining) ==
    IF chain[1] = chain[Len(chain)] THEN <<chain, remaining>>
    ELSE LET tail == chain[Len(chain)]
             hits == {i \in 1..Len(remaining) :
                         \/ tail = remaining[i][1]
                         \/ tail = remaining[i][Len(remaining[i])]}
         IN  IF hits = {} THEN <<chain, remaining>>
             ELSE LET i == MinOf(hits)
                      seg == remaining[i]
                      ext == IF tail = seg[1] THEN seg ELSE Reverse(seg)
                  IN  ExtendChainDupJunction(chain \o ext, RemoveAt(remaining, i))

\* ExtendChain matching only the first node of a remaining way
RECURSIVE ExtendChainForwardOnly(_, _)
ExtendChainForwardOnly(chain, remaining) ==
    IF chain[1] = chain[Len(chain)] THEN <<chain, remaining>>
    ELSE LET tail == chain[Len(chain)]
             hits == {i \in 1..Len(remaining) : tail = remaining[i][1]}
         IN  IF hits = {} THEN <<chain, remaining>>
             ELSE LET i == MinOf(hits)
                  IN  ExtendChainForwardOnly(chain \o Tail(remaining[i]),
                                             RemoveAt(remaining, i))

\* the inner while loop: extends chain from remaining until it closes or no
\* remaining way starts or ends at its tail; yields <<chain, remaining>>
RECURSIVE ExtendChain(_, _)
ExtendChain(chain, remaining) ==
    IF chain[1] = chain[Len(chain)] THEN <<chain, remaining>>
    ELSE LET tail == chain[Len(chain)]
             hits == {i \in 1..Len(remaining) :
                         \/ tail = remaining[i][1]
                         \/ tail = remaining[i][Len(remaining[i])]}
         IN  IF hits = {} THEN <<chain, remaining>>
             ELSE LET i == MinOf(hits)
                      seg == remaining[i]
                      ext == IF tail = seg[1] THEN Tail(seg) ELSE Tail(Reverse(seg))
                  IN  ExtendChain(chain \o ext, RemoveAt(remaining, i))

\* AssembleChains starting a chain from every way, those already appended to
\* an earlier chain as well
RECURSIVE AssembleChainsKeepingUsed(_)
AssembleChainsKeepingUsed(remaining) ==
    IF Len(remaining) = 0 THEN <<>>
    ELSE <<ExtendChain(Head(remaining), Tail(remaining))[1]>>
         \o AssembleChainsKeepingUsed(Tail(remaining))

\* the outer while loop: the chains in the order they are finished
RECURSIVE AssembleChains(_)
AssembleChains(remaining) ==
    IF Len(remaining) = 0 THEN <<>>
    ELSE LET r == ExtendChain(Head(remaining), Tail(remaining))
         IN  <<r[1]>> \o AssembleChains(r[2])

\* ResolveChain keeping the coordinates found before the missing node
ResolveChainTruncating(chain, nm) ==
    [valid |-> TRUE,
     coords |-> [i \in 1..MinOf({Len(chain)} \cup {j - 1 : j \in {k \in 1..Len(chain) :
                                                            chain[k] \notin DOMAIN nm}})
                 |-> nm[chain[i]]]]

\* node ids to coordinates; valid is false when a node is missing from the map
ResolveChain(chain, nm) ==
    IF \A i \in 1..Len(chain) : chain[i] \in DOMAIN nm
    THEN [valid |-> TRUE, coords |-> [i \in 1..Len(chain) |-> nm[chain[i]]]]
    ELSE [valid |-> FALSE, coords |-> <<>>]

RECURSIVE KeepRings(_, _)
KeepRings(chains, nm) ==
    IF Len(chains) = 0 THEN <<>>
    ELSE LET r == ResolveChain(Head(chains), nm)
         IN  (IF r.valid /\ Len(r.coords) >= 3 THEN <<r.coords>> ELSE <<>>)
             \o KeepRings(Tail(chains), nm)

assembleRings(ways, nm) == KeepRings(AssembleChains(ways), nm)

(***************************************************************************)
(* Nodes and ways of the ring specification                                *)
(***************************************************************************)
MaxWays == 3

\* node id -> [lat, lon].  A = 1, B = 2, C = 3, D = 4 and E = 5 lie inside the
\* selection [-2, 2] x [-2, 2]; 6 and 10 lie east of it, 7 west, 8 north, 9 south.
NodeCoord ==
    (1 :> Pt(-1, -1)) @@ (2 :> Pt(1, -1)) @@ (3 :> Pt(1, 1)) @@ (4 :> Pt(-1, 1)) @@
    (5 :> Pt(0, 0)) @@ (6 :> Pt(0, 4)) @@ (7 :> Pt(0, -4)) @@ (8 :> Pt(4, 0)) @@
    (9 :> Pt(-4, 0)) @@ (10 :> Pt(1, 4))

WayPool ==
    {<<1, 2, 3>>, <<3, 4, 1>>, <<1, 4, 3>>, <<3, 5>>, <<1, 2, 5, 1>>, <<4, 5>>,
     <<4, 5, 2, 4>>}

NodeMaps == {NodeCoord, [n \in (DOMAIN NodeCoord) \ {4} |-> NodeCoord[n]]}

RingInit ==
    /\ TagIdle /\ ClipIdle /\ SeaIdle /\ BufferIdle /\ ScaleIdle /\ ParseIdle /\ HookIdle /\ NoBounds
    /\ memberWays \in SeqsUpTo(WayPool, MaxWays)
    /\ nodeMap \in NodeMaps
    /\ rings = <<>>
    /\ pc = "start"

Assemble ==
    /\ pc = "start"
    /\ pc' = "done"
    /\ rings' = assembleRings(memberWays, nodeMap)
    /\ UNCHANGED <<tagVars, memberWays, clipVars, seaVars, bufferVars, scaleVars, parseVars,
                   hookVars, nodeMap, bounds>>

SpecRings == RingInit /\ [][Assemble]_vars

Coords(chain) == [i \in 1..Len(chain) |-> NodeCoord[chain[i]]]

\* C3 as stated: [A,B,C] and [C,D,A], in either order, give the one ring
\* [A,B,C,D,A].
C3_Original ==
    (/\ pc = "done"
     /\ nodeMap = NodeCoord
     /\ memberWays \in {<<(<<1, 2, 3>>), (<<3, 4, 1>>)>>, <<(<<3, 4, 1>>), (<<1, 2, 3>>)>>})
    => rings = <<Coords(<<1, 2, 3, 4, 1>>)>>

\* C3 amended: [A,B,C] and [C,D,A] give exactly one closed ring in either
\* order; it is [A,B,C,D,A] when [A,B,C] comes first and the same ring
\* started at C, [C,D,A,B,C], when [C,D,A] comes first.
C3_RingOfTwoWays ==
    pc = "done" /\ nodeMap = NodeCoord =>
        /\ memberWays = <<(<<1, 2, 3>>), (<<3, 4, 1>>)>>
               => rings = <<Coords(<<1, 2, 3, 4, 1>>)>>
        /\ memberWays = <<(<<3, 4, 1>>), (<<1, 2, 3>>)>>
               => rings = <<Coords(<<3, 4, 1, 2, 3>>)>>

\* C3 witness: the two ways in the second order, assembled
C3_Witness ==
    /\ pc = "done"
    /\ nodeMap = NodeCoord
    /\ memberWays = <<(<<3, 4, 1>>), (<<1, 2, 3>>)>>
    /\ Len(rings) = 1

\* C13: every ring that assembleRings returns is closed, its first and its
\* last node being the same; a chain that cannot close gives no ring.
C13_RingsClosed ==
    pc = "done" => \A i \in 1..Len(rings) : rings[i][1] = rings[i][Len(rings[i])]

(***************************************************************************)
(* buildSeaPolygons (useOverpassData.ts) and its helpers.  Points of this  *)
(* part are [lat, lon]; Bounds are <<south, west, north, east>>.           *)
(***************************************************************************)
\* the reciprocal of eps = 1e-9 of boxAngle
EpsInverse == 1000000000

\* Math.abs(a) < eps
AbsBelowEps(a) == AbsInt(a[1]) <= (a[2] - 1) \div EpsInverse

Between01(t) == RGe(t, R(0)) /\ RLe(t, R(1))

\* the candidate pushed for a vertical edge x = ex, if any
HitVertical(ax, ay, bx, by, ex, minY, maxY) ==
    IF bx = ax THEN <<>>
    ELSE Let(RDiv(RSub(ex, ax), RSub(bx, ax)), LAMBDA t :
         Let(RAdd(ay, RMul(t, RSub(by, ay))), LAMBDA iy :
             IF Between01(t) /\ RGe(iy, minY) /\ RLe(iy, maxY)
             THEN <<[t |-> t, pt |-> <<ex, iy>>]>>
             ELSE <<>>))

\* the candidate pushed for a horizontal edge y = ey, if any
HitHorizontal(ax, ay, bx, by, ey, minX, maxX) ==
    IF by = ay THEN <<>>
    ELSE Let(RDiv(RSub(ey, ay), RSub(by, ay)), LAMBDA t :
         Let(RAdd(ax, RMul(t, RSub(bx, ax))), LAMBDA ix :
             IF Between01(t) /\ RGe(ix, minX) /\ RLe(ix, maxX)
             THEN <<[t |-> t, pt |-> <<ix, ey>>]>>
             ELSE <<>>))

\* the intersection nearest to a ([x, y]); found is false for null
segmentBoxIntersection(ax, ay, bx, by, minX, minY, maxX, maxY) ==
    Let(HitVertical(ax, ay, bx, by, minX, minY, maxY)
            \o HitVertical(ax, ay, bx, by, maxX, minY, maxY)
            \o HitHorizontal(ax, ay, bx, by, minY, minX, maxX)
            \o HitHorizontal(ax, ay, bx, by, maxY, minX, maxX),
        LAMBDA edges :
            IF Len(edges) = 0 THEN [found |-> FALSE, pt |-> <<>>]
            ELSE LET first == MinOf({i \in 1..Len(edges) :
                                        \A j \in 1..Len(edges) : RLe(edges[i].t, edges[j].t)})
                 IN  [found |-> TRUE, pt |-> edges[first].pt])

\* position of (x, y) on the perimeter, clockwise from the top-left corner
boxAngle(x, y, minX, minY, maxX, maxY) ==
    LET w == RSub(maxX, minX)
        h == RSub(maxY, minY)
    IN  IF AbsBelowEps(RSub(y, maxY)) THEN RDiv(RSub(x, minX), w)
        ELSE IF AbsBelowEps(RSub(x, maxX)) THEN RAdd(R(1), RDiv(RSub(maxY, y), h))
        ELSE IF AbsBelowEps(RSub(y, minY)) THEN RAdd(R(2), RDiv(RSub(maxX, x), w))
        ELSE IF AbsBelowEps(RSub(x, minX)) THEN RAdd(R(3), RDiv(RSub(y, minY), h))
        ELSE R(0)

\* the box corners [x, y] by index: top-right, bottom-right, bottom-left, top-left
BoxCorner(i, minX, minY, maxX, maxY) ==
    CASE i = 1 -> <<maxX, maxY>>
      [] i = 2 -> <<maxX, minY>>
      [] i = 3 -> <<minX, minY>>
      [] i = 4 -> <<minX, maxY>>

RECURSIVE CornerLoop(_, _, _, _, _, _, _)
CornerLoop(i, a, target, minX, minY, maxX, maxY) ==
    IF i > 4 THEN <<>>
    ELSE LET ca == IF RLe(R(i), a) THEN R(i + 4) ELSE R(i)
         IN  (IF RGt(ca, a) /\ RLt(ca, target)
              THEN <<BoxCorner(i, minX, minY, maxX, maxY)>> ELSE <<>>)
             \o CornerLoop(i + 1, a, target, minX, minY, maxX, maxY)

\* boxCornersBetween without the wrap of the end angle past the top-left corner
boxCornersBetweenNoWrap(startAngle, endAngle, minX, minY, maxX, maxY) ==
    CornerLoop(1, startAngle, endAngle, minX, minY, maxX, maxY)

boxCornersBetween(startAngle, endAngle, minX, minY, maxX, maxY) ==
    LET target == IF RLe(endAngle, startAngle) THEN RAdd(endAngle, R(4)) ELSE endAngle
    IN  CornerLoop(1, startAngle, target, minX, minY, maxX, maxY)

\* ExtendCoast joining a way to the chain's tail by either of its ends, as
\* assembleRings does
RECURSIVE ExtendCoastReversing(_, _)
ExtendCoastReversing(chain, remaining) ==
    LET tail == chain[Len(chain)]
        hits == {i \in 1..Len(remaining) :
                    \/ tail = remaining[i][1]
                    \/ tail = remaining[i][Len(remaining[i])]}
    IN  IF hits = {} THEN <<chain, remaining>>
        ELSE LET i == MinOf(hits)
                 seg == remaining[i]
                 ext == IF tail = seg[1] THEN Tail(seg) ELSE Tail(Reverse(seg))
             IN  ExtendCoastReversing(chain \o ext, RemoveAt(remaining, i))

\* step 1, the inner while loop: joins ways head to tail, never reversed
RECURSIVE ExtendCoast(_, _)
ExtendCoast(chain, remaining) ==
    LET head == chain[1]
        tail == chain[Len(chain)]
        hits == {i \in 1..Len(remaining) :
                    \/ tail = remaining[i][1]
                    \/ head = remaining[i][Len(remaining[i])]}
    IN  IF hits = {} THEN <<chain, remaining>>
        ELSE LET i == MinOf(hits)
                 seg == remaining[i]
                 joined == IF tail = seg[1] THEN chain \o Tail(seg) ELSE seg \o Tail(chain)
             IN  ExtendCoast(joined, RemoveAt(remaining, i))

\* step 1, the outer while loop
RECURSIVE CoastChains(_)
CoastChains(remaining) ==
    IF Len(remaining) = 0 THEN <<>>
    ELSE LET r == ExtendCoast(Head(remaining), Tail(remaining))
         IN  <<r[1]>> \o CoastChains(r[2])

InBounds(p, b) == RGe(p[1], b[1]) /\ RLe(p[1], b[3]) /\ RGe(p[2], b[2]) /\ RLe(p[2], b[4])

\* RingArea with latitude and longitude taken for one another
RECURSIVE RingAreaLatFirst(_, _)
RingAreaLatFirst(coords, i) ==
    IF i >= Len(coords) THEN R(0)
    ELSE RAdd(RMul(RSub(coords[i + 1][1], coords[i][1]), RAdd(coords[i + 1][2], coords[i][2])),
              RingAreaLatFirst(coords, i + 1))

\* the signed area sum of a closed chain
RECURSIVE RingArea(_, _)
RingArea(coords, i) ==
    IF i >= Len(coords) THEN R(0)
    ELSE RAdd(RMul(RSub(coords[i + 1][2], coords[i][2]), RAdd(coords[i + 1][1], coords[i][1])),
              RingArea(coords, i + 1))

NoEntry == [set |-> FALSE, pt |-> <<>>]

\* the crossing test of step 3 for coords[i], i > 1: the walk state after it
CrossStep(coords, i, b, st) ==
    LET pt == coords[i]
        prev == coords[i - 1]
    IN  Let(InBounds(pt, b), LAMBDA inside :
        Let(InBounds(prev, b), LAMBDA pInside :
        Let(segmentBoxIntersection(prev[2], prev[1], pt[2], pt[1], b[2], b[1], b[4], b[3]),
            LAMBDA inter :
        IF ~pInside /\ inside
        THEN IF inter.found
             THEN LET e == <<inter.pt[2], inter.pt[1]>>
                  IN  [segments |-> st.segments, curPoints |-> <<e>>,
                       curEntry |-> [set |-> TRUE, pt |-> e]]
             ELSE [segments |-> st.segments, curPoints |-> <<>>,
                   curEntry |-> [set |-> TRUE, pt |-> pt]]
        ELSE IF pInside /\ ~inside
        THEN [segments |->
                 IF inter.found /\ st.curEntry.set
                 THEN LET exit == <<inter.pt[2], inter.pt[1]>>
                          pts == Append(st.curPoints, exit)
                      IN  IF Len(pts) >= 2
                          THEN Append(st.segments,
                                      [points |-> pts, entry |-> st.curEntry.pt, exit |-> exit])
                          ELSE st.segments
                 ELSE st.segments,
              curPoints |-> <<>>, curEntry |-> NoEntry]
        ELSE st)))

\* SplitChain making a segment of the points left over when the chain ends
\* inside the bounds, with the last of them for exit
RECURSIVE SplitChainKeepingTail(_, _, _, _)
SplitChainKeepingTail(coords, i, b, st) ==
    IF i > Len(coords)
    THEN IF st.curEntry.set /\ Len(st.curPoints) >= 2
         THEN Append(st.segments, [points |-> st.curPoints, entry |-> st.curEntry.pt,
                                   exit |-> st.curPoints[Len(st.curPoints)]])
         ELSE st.segments
    ELSE Let(IF i > 1 THEN CrossStep(coords, i, b, st) ELSE st, LAMBDA crossed :
             SplitChainKeepingTail(coords, i + 1, b,
                        IF InBounds(coords[i], b)
                        THEN [crossed EXCEPT !.curPoints = Append(@, coords[i])]
                        ELSE crossed))

\* step 3: the loop over the chain's coordinates; yields the segments
RECURSIVE SplitChain(_, _, _, _)
SplitChain(coords, i, b, st) ==
    IF i > Len(coords) THEN st.segments
    ELSE Let(IF i > 1 THEN CrossStep(coords, i, b, st) ELSE st, LAMBDA crossed :
             SplitChain(coords, i + 1, b,
                        IF InBounds(coords[i], b)
                        THEN [crossed EXCEPT !.curPoints = Append(@, coords[i])]
                        ELSE crossed))

SwapXY(pts) == [i \in 1..Len(pts) |-> <<pts[i][2], pts[i][1]>>]

\* step 4 for one segment: the closed polygon and what closed it
CloseSegment(seg, b) ==
    Let(boxAngle(seg.exit[2], seg.exit[1], b[2], b[1], b[4], b[3]), LAMBDA exitAngle :
    Let(boxAngle(seg.entry[2], seg.entry[1], b[2], b[1], b[4], b[3]), LAMBDA entryAngle :
    Let(boxCornersBetween(exitAngle, entryAngle, b[2], b[1], b[4], b[3]), LAMBDA corners :
        [poly |-> seg.points \o SwapXY(corners) \o <<seg.points[1]>>,
         open |-> TRUE, points |-> seg.points, entry |-> seg.entry, exit |-> seg.exit,
         exitAngle |-> exitAngle, entryAngle |-> entryAngle, corners |-> SwapXY(corners)])))

RECURSIVE CloseSegments(_, _)
CloseSegments(segs, b) ==
    IF Len(segs) = 0 THEN <<>>
    ELSE Let(CloseSegment(Head(segs), b), LAMBDA c :
             (IF Len(c.poly) >= 3 THEN <<c>> ELSE <<>>) \o CloseSegments(Tail(segs), b))

\* steps 2 to 4 for one chain: the polygons it contributes
SeaOfChain(chain, nm, b) ==
    Let(ResolveChain(chain, nm), LAMBDA r :
        IF ~r.valid \/ Len(r.coords) < 2 THEN <<>>
        ELSE IF chain[1] = chain[Len(chain)]
        THEN IF RGt(RingArea(r.coords, 1), R(0))
             THEN <<[poly |-> r.coords, open |-> FALSE]>>
             ELSE <<>>
        ELSE CloseSegments(SplitChain(r.coords, 1, b,
                 [segments |-> <<>>, curPoints |-> <<>>, curEntry |-> NoEntry]), b))

RECURSIVE SeaOfChains(_, _, _)
SeaOfChains(chains, nm, b) ==
    IF Len(chains) = 0 THEN <<>>
    ELSE SeaOfChain(Head(chains), nm, b) \o SeaOfChains(Tail(chains), nm, b)

\* the polygons pushed to seaPolygons, each with a record of how it was made
buildSeaPolygons(ways, nm, b) ==
    IF Len(ways) = 0 THEN <<>> ELSE SeaOfChains(CoastChains(ways), nm, b)

(***************************************************************************)
(* Ways and bounds of the coastline specification                          *)
(***************************************************************************)
MaxCoast == 2

CoastPool ==
    {<<6, 5>>, <<5, 7>>, <<7, 5>>, <<5, 6>>, <<8, 5>>, <<5, 9>>, <<9, 3, 8>>, <<6, 7>>,
     <<1, 2, 3, 4, 1>>, <<1, 4, 3, 2, 1>>, <<5, 3>>, <<7, 2, 3, 6>>, <<5, 3, 2, 5>>,
     <<5, 6, 3, 7, 2>>}

SelectionBounds == <<R(-2), R(-2), R(2), R(2)>>

SeaInit ==
    /\ TagIdle /\ ClipIdle /\ RingIdle /\ BufferIdle /\ ScaleIdle /\ ParseIdle /\ HookIdle
    /\ coastlineWays \in SeqsUpTo(CoastPool, MaxCoast)
    /\ nodeMap \in NodeMaps
    /\ bounds = SelectionBounds
    /\ seaPolygons = <<>>
    /\ seaClosings = <<>>
    /\ pc = "start"

BuildSea ==
    /\ pc = "start"
    /\ pc' = "done"
    /\ \E made \in {buildSeaPolygons(coastlineWays, nodeMap, bounds)} :
           /\ seaPolygons' = [i \in 1..Len(made) |-> made[i].poly]
           /\ seaClosings' = SelectSeq(made, LAMBDA m : m.open)
    /\ UNCHANGED <<tagVars, coastlineWays, clipVars, ringVars, bufferVars, scaleVars, parseVars,
                   hookVars, nodeMap, bounds>>

SpecSea == SeaInit /\ [][BuildSea]_vars

\* how far clockwise along the perimeter x lies from a, in (0, 4]
ClockwiseFrom(a, x) == IF RGt(x, a) THEN RSub(x, a) ELSE RAdd(RSub(x, a), R(4))

\* the corners [lat, lon] a clockwise walk from perimeter position a to
\* perimeter position e meets, in the order in which it meets them
WalkedCorners(a, e, b) ==
    LET met == {i \in 1..4 : RLt(ClockwiseFrom(a, R(i)), ClockwiseFrom(a, e))}
        rank(i) == Cardinality({j \in met : RLt(ClockwiseFrom(a, R(j)), ClockwiseFrom(a, R(i)))})
    IN  [k \in 1..Cardinality(met) |->
            LET i == CHOOSE c \in met : rank(c) = k - 1
                c == BoxCorner(i, b[2], b[1], b[4], b[3])
            IN  <<c[2], c[1]>>]

\* C4: the corners appended when a segment is closed are the corners a clockwise
\* walk from the exit point to the entry point meets, in the order of the walk.
C4_ClockwiseCorners ==
    pc = "done" =>
        \A i \in 1..Len(seaClosings) :
            seaClosings[i].corners =
                WalkedCorners(seaClosings[i].exitAngle, seaClosings[i].entryAngle, bounds)

InsideCount(coords, b) == Cardinality({i \in 1..Len(coords) : InBounds(coords[i], b)})

\* the vertices of coords are outside, then inside, then outside the bounds:
\* the chain enters once and then exits once
EntersThenExits(coords, b) ==
    \E i, j \in 1..Len(coords) :
        /\ 1 < i /\ i <= j /\ j < Len(coords)
        /\ \A k \in 1..Len(coords) : InBounds(coords[k], b) <=> (i <= k /\ k <= j)

\* the runs C5 is about: the ways form one open chain, all nodes resolvable,
\* that enters the selection once and then exits it once
OneCrossingChain ==
    /\ pc = "done"
    /\ Len(coastlineWays) > 0
    /\ LET chains == CoastChains(coastlineWays)
       IN  /\ Len(chains) = 1
           /\ chains[1][1] # chains[1][Len(chains[1])]
           /\ ResolveChain(chains[1], nodeMap).valid
           /\ EntersThenExits(ResolveChain(chains[1], nodeMap).coords, bounds)

CrossingChainCoords == ResolveChain(CoastChains(coastlineWays)[1], nodeMap).coords

LengthOr1(dx, dy) ==
    Let(RSqrt(RAdd(RMul(dx, dx), RMul(dy, dy))), LAMBDA len :
        IF IsNaN(len) \/ len = R(0) THEN R(1) ELSE len)

\* the left unit normal of the segment from a to b
SegmentNormal(a, b) ==
    Let(RSub(b[1], a[1]), LAMBDA dx :
    Let(RSub(b[2], a[2]), LAMBDA dy :
    Let(LengthOr1(dx, dy), LAMBDA len :
        <<RDiv(RNeg(dy), len), RDiv(dx, len)>>)))

\* <<nx, ny>> of loop iteration i
VertexNormal(ln, i) ==
    IF i = 1 THEN SegmentNormal(ln[1], ln[2])
    ELSE IF i = Len(ln) THEN SegmentNormal(ln[i - 1], ln[i])
    ELSE Let(SegmentNormal(ln[i - 1], ln[i]), LAMBDA n1 :
         Let(SegmentNormal(ln[i], ln[i + 1]), LAMBDA n2 :
         Let(RDiv(RAdd(n1[1], n2[1]), R(2)), LAMBDA nx :
         Let(RDiv(RAdd(n1[2], n2[2]), R(2)), LAMBDA ny :
         Let(LengthOr1(nx, ny), LAMBDA nlen :
             <<RDiv(nx, nlen), RDiv(ny, nlen)>>)))))

LeftRail(ln, hw) ==
    [i \in 1..Len(ln) |->
        Let(VertexNormal(ln, i), LAMBDA n :
            <<RAdd(ln[i][1], RMul(n[1], hw)), RAdd(ln[i][2], RMul(n[2], hw))>>)]

RightRail(ln, hw) ==
    [i \in 1..Len(ln) |->
        Let(VertexNormal(ln, i), LAMBDA n :
            <<RSub(ln[i][1], RMul(n[1], hw)), RSub(ln[i][2], RMul(n[2], hw))>>)]

\* bufferLineToPolygon returning the right rail in its forward order
bufferLineNoReverse(ln, hw) ==
    IF Len(ln) < 2 THEN <<>> ELSE LeftRail(ln, hw) \o RightRail(ln, hw)

\* bufferLineToPolygon giving up on a line with two equal consecutive points
bufferLineNoZeroSegment(ln, hw) ==
    IF Len(ln) < 2 \/ \E i \in 1..(Len(ln) - 1) : ln[i] = ln[i + 1] THEN <<>>
    ELSE LeftRail(ln, hw) \o Reverse(RightRail(ln, hw))

bufferLineToPolygon(ln, hw) ==
    IF Len(ln) < 2 THEN <<>> ELSE LeftRail(ln, hw) \o Reverse(RightRail(ln, hw))

(***************************************************************************)
(* Lines of the buffering specification                                    *)
(***************************************************************************)
MaxLineLen == 3

LinePoints == {Pt(0, 0), Pt(3, 0), Pt(0, 4), Pt(3, 4), Pt(6, 0), Pt(-3, 4)}

HalfWidths == {R(1), Rat(3, 2), R(5)}

SquaredLength(dx, dy) == RAdd(RMul(dx, dx), RMul(dy, dy))

IsRatSquare(a) == IsSquare(a[1]) /\ IsSquare(a[2])

\* the lines on which every Math.sqrt of bufferLineToPolygon is rational
RationalLine(ln) ==
    /\ \A i \in 1..(Len(ln) - 1) :
           IsRatSquare(SquaredLength(RSub(ln[i + 1][1], ln[i][1]), RSub(ln[i + 1][2], ln[i][2])))
    /\ \A i \in 2..(Len(ln) - 1) :
           \E n1 \in {SegmentNormal(ln[i - 1], ln[i])}, n2 \in {SegmentNormal(ln[i], ln[i + 1])} :
               IsRatSquare(SquaredLength(RDiv(RAdd(n1[1], n2[1]), R(2)),
                                         RDiv(RAdd(n1[2], n2[2]), R(2))))

BufferInit ==
    /\ TagIdle /\ ClipIdle /\ RingIdle /\ SeaIdle /\ ScaleIdle /\ ParseIdle /\ HookIdle
    /\ NoNodeMap /\ NoBounds
    /\ line \in {ln \in SeqsUpTo(LinePoints, MaxLineLen) : RationalLine(ln)}
    /\ halfWidthMm \in HalfWidths
    /\ strip = <<>>
    /\ pc = "start"

Buffer ==
    /\ pc = "start"
    /\ pc' = "done"
    /\ strip' = bufferLineToPolygon(line, halfWidthMm)
    /\ UNCHANGED <<tagVars, line, halfWidthMm, clipVars, ringVars, seaVars, scaleVars, parseVars,
                   hookVars, nodeMap, bounds>>

SpecBuffer == BufferInit /\ [][Buffer]_vars

VSub(a, b) == <<RSub(a[1], b[1]), RSub(a[2], b[2])>>
VAdd(a, b) == <<RAdd(a[1], b[1]), RAdd(a[2], b[2])>>
Dot(a, b) == RAdd(RMul(a[1], b[1]), RMul(a[2], b[2]))
Cross(a, b) == RSub(RMul(a[1], b[2]), RMul(a[2], b[1]))

\* C10: for a 2-point line from P to Q, P # Q, the result is
\* [P + o, Q + o, Q - o, P - o], where the offset o is perpendicular to PQ, of
\* length halfWidthMm, and points to the left of the direction from P to Q.
C10_BufferRectangle ==
    (pc = "done" /\ Len(line) = 2 /\ line[1] # line[2]) =>
        /\ Len(strip) = 4
        /\ LET P == line[1]
               Q == line[2]
               o == VSub(strip[1], P)
           IN  /\ Dot(o, VSub(Q, P)) = R(0)
               /\ Dot(o, o) = RMul(halfWidthMm, halfWidthMm)
               /\ RGt(Cross(VSub(Q, P), o), R(0))
               /\ strip = <<VAdd(P, o), VAdd(Q, o), VSub(Q, o), VSub(P, o)>>

\* C10 witness: a buffered 2-point line that is not parallel to an axis
C10_Witness ==
    /\ pc = "done"
    /\ Len(line) = 2
    /\ line[1][1] # line[2][1]
    /\ line[1][2] # line[2][2]
    /\ Len(strip) = 4

(***************************************************************************)
(* Natural numbers of any size: little-endian sequences of 15-bit limbs    *)
(* without leading zero limbs (TLC's integers have 32 bits)                *)
(***************************************************************************)
LimbOf(x) == x % 32768
CarryOf(x) == x \div 32768
LimbAt(b, i) == IF i <= Len(b) THEN b[i] ELSE 0

RECURSIVE BTrim(_)
BTrim(b) == IF Len(b) = 0 \/ b[Len(b)] # 0 THEN b ELSE BTrim(SubSeq(b, 1, Len(b) - 1))

RECURSIVE BigOf(_)
BigOf(n) == IF n = 0 THEN <<>> ELSE <<LimbOf(n)>> \o BigOf(CarryOf(n))

RECURSIVE BAddFrom(_, _, _, _)
BAddFrom(a, b, i, carry) ==
    IF i > Len(a) /\ i > Len(b) THEN (IF carry = 0 THEN <<>> ELSE <<carry>>)
    ELSE Let(LimbAt(a, i) + LimbAt(b, i) + carry, LAMBDA s :
             <<LimbOf(s)>> \o BAddFrom(a, b, i + 1, CarryOf(s)))

BAdd(a, b) == BAddFrom(a, b, 1, 0)

\* a - b for a >= b
RECURSIVE BSubFrom(_, _, _, _)
BSubFrom(a, b, i, borrow) ==
    IF i > Len(a) THEN <<>>
    ELSE Let(a[i] - LimbAt(b, i) - borrow, LAMBDA d :
             IF d < 0 THEN <<d + 32768>> \o BSubFrom(a, b, i + 1, 1)
             ELSE <<d>> \o BSubFrom(a, b, i + 1, 0))

BSub(a, b) == BTrim(BSubFrom(a, b, 1, 0))

\* -1, 0 or 1 as a < b, a = b or a > b, comparing the limbs from i down
RECURSIVE BCmpFrom(_, _, _)
BCmpFrom(a, b, i) ==
    IF i = 0 THEN 0
    ELSE IF a[i] < b[i] THEN -1
    ELSE IF a[i] > b[i] THEN 1
    ELSE BCmpFrom(a, b, i - 1)

BCmp(a, b) ==
    IF Len(a) < Len(b) THEN -1
    ELSE IF Len(a) > Len(b) THEN 1
    ELSE BCmpFrom(a, b, Len(a))

\* a * m for a limb m
RECURSIVE BMulLimbFrom(_, _, _, _)
BMulLimbFrom(a, m, i, carry) ==
    IF i > Len(a) THEN (IF carry = 0 THEN <<>> ELSE <<carry>>)
    ELSE Let(a[i] * m + carry, LAMBDA s :
             <<LimbOf(s)>> \o BMulLimbFrom(a, m, i + 1, CarryOf(s)))

BMulLimb(a, m) == IF m = 0 THEN <<>> ELSE BMulLimbFrom(a, m, 1, 0)

RECURSIVE BMul(_, _)
BMul(a, b) ==
    IF Len(a) = 0 \/ Len(b) = 0 THEN <<>>
    ELSE Let(BMul(a, Tail(b)), LAMBDA high :
             BAdd(BMulLimb(a, b[1]), IF Len(high) = 0 THEN <<>> ELSE <<0>> \o high))

\* the quotient of a by a limb m > 0, dividing the limbs from i down
RECURSIVE BDivLimbFrom(_, _, _, _)
BDivLimbFrom(a, m, i, rem) ==
    IF i = 0 THEN <<>>
    ELSE Let(rem * 32768 + a[i], LAMBDA s :
             BDivLimbFrom(a, m, i - 1, s % m) \o <<s \div m>>)

BDivLimb(a, m) == BTrim(BDivLimbFrom(a, m, Len(a), 0))

RECURSIVE Pow2(_)
Pow2(k) == IF k = 0 THEN 1 ELSE 2 * Pow2(k - 1)

RECURSIVE IntBitLen(_)
IntBitLen(n) == IF n = 0 THEN 0 ELSE 1 + IntBitLen(n \div 2)

BitLen(b) == IF Len(b) = 0 THEN 0 ELSE 15 * (Len(b) - 1) + IntBitLen(b[Len(b)])

\* 2^k
BPow2(k) == [i \in 1..((k \div 15) + 1) |-> IF i = (k \div 15) + 1 THEN Pow2(k % 15) ELSE 0]

\* b * 2^k and the integer part of b / 2^k
BShl(b, k) == BMul(b, BPow2(k))
BShr(b, k) ==
    IF Len(b) <= k \div 15 THEN <<>>
    ELSE BDivLimb(SubSeq(b, (k \div 15) + 1, Len(b)), Pow2(k % 15))

BIsOdd(b) == Len(b) > 0 /\ b[1] % 2 = 1

(***************************************************************************)
(* IEEE 754 binary64 numbers: zero, or (-1)^neg * mant * 2^exp with mant   *)
(* of exactly 53 bits.  Infinities, NaN, subnormals and the sign of zero   *)
(* are left out: no value of this model leaves the normal range.           *)
(***************************************************************************)
FZero == [neg |-> FALSE, mant |-> <<>>, exp |-> 0]
FIsZero(a) == Len(a.mant) = 0

\* the value n * 2^e (plus, when sticky, a positive amount below one unit of
\* n), rounded to the nearest binary64, ties to even
Round53(n, sticky, e, neg) ==
    Let(BitLen(n), LAMBDA len :
        IF len = 0 THEN FZero
        ELSE IF len <= 53
        THEN [neg |-> neg, mant |-> BShl(n, 53 - len), exp |-> e - (53 - len)]
        ELSE Let(BShr(n, len - 53), LAMBDA q :
             Let(BCmp(BSub(n, BShl(q, len - 53)), BPow2(len - 54)), LAMBDA c :
             Let(IF c > 0 \/ (c = 0 /\ (sticky \/ BIsOdd(q))) THEN BAdd(q, <<1>>) ELSE q,
                 LAMBDA m :
                 IF BitLen(m) = 54
                 THEN [neg |-> neg, mant |-> BShr(m, 1), exp |-> e + (len - 53) + 1]
                 ELSE [neg |-> neg, mant |-> m, exp |-> e + (len - 53)]))))

\* the integer n and the dyadic rational n / 2^k as binary64 numbers
FInt(n) == Round53(BigOf(IF n < 0 THEN -n ELSE n), FALSE, 0, n < 0)
FDyadic(n, k) == Round53(BigOf(IF n < 0 THEN -n ELSE n), FALSE, -k, n < 0)

FNeg(a) == IF FIsZero(a) THEN a ELSE [a EXCEPT !.neg = ~a.neg]
FAbs(a) == [a EXCEPT !.neg = FALSE]

FMul(a, b) ==
    IF FIsZero(a) \/ FIsZero(b) THEN FZero
    ELSE Round53(BMul(a.mant, b.mant), FALSE, a.exp + b.exp, a.neg # b.neg)

\* one step of a restoring division by d: st.q is the quotient so far, st.r
\* the remainder
DivStep(st, d) ==
    Let(BMulLimb(st.r, 2), LAMBDA r2 :
    Let(BMulLimb(st.q, 2), LAMBDA q2 :
        IF BCmp(r2, d) >= 0
        THEN [q |-> BAdd(q2, <<1>>), r |-> BSub(r2, d)]
        ELSE [q |-> q2, r |-> r2]))

\* `steps` steps, one after the other
RECURSIVE DivSteps(_, _, _)
DivSteps(st, d, steps) ==
    IF steps = 0 THEN st
    ELSE IF steps = 1 THEN DivStep(st, d)
    ELSE Let(DivSteps(st, d, steps \div 2), LAMBDA half :
             DivSteps(half, d, steps - (steps \div 2)))

\* a / b for b # 0: 56 quotient bits beyond the integer part, then rounded
\* a / b for b # 0; a division by zero stops the check
FDiv(a, b) ==
    CASE FIsZero(a) /\ ~FIsZero(b) -> FZero
      [] ~FIsZero(a) /\ ~FIsZero(b) ->
         Let(DivSteps(IF BCmp(a.mant, b.mant) >= 0
                      THEN [q |-> <<1>>, r |-> BSub(a.mant, b.mant)]
                      ELSE [q |-> <<>>, r |-> a.mant], b.mant, 56),
             LAMBDA st : Round53(st.q, Len(st.r) > 0, a.exp - b.exp - 56, a.neg # b.neg))

FAdd(a, b) ==
    IF FIsZero(a) THEN b
    ELSE IF FIsZero(b) THEN a
    ELSE Let(IF a.exp < b.exp THEN a.exp ELSE b.exp, LAMBDA e :
         Let(BShl(a.mant, a.exp - e), LAMBDA x :
         Let(BShl(b.mant, b.exp - e), LAMBDA y :
             IF a.neg = b.neg THEN Round53(BAdd(x, y), FALSE, e, a.neg)
             ELSE IF BCmp(x, y) >= 0 THEN Round53(BSub(x, y), FALSE, e, a.neg)
             ELSE Round53(BSub(y, x), FALSE, e, b.neg))))

FSub(a, b) == FAdd(a, FNeg(b))

\* a < b
FLt(a, b) ==
    IF FIsZero(a) THEN ~FIsZero(b) /\ ~b.neg
    ELSE IF FIsZero(b) THEN a.neg
    ELSE IF a.neg # b.neg THEN a.neg
    ELSE Let(IF a.exp # b.exp THEN (IF a.exp < b.exp THEN -1 ELSE 1)
             ELSE BCmp(a.mant, b.mant), LAMBDA c :
             IF a.neg THEN c > 0 ELSE c < 0)

FGt(a, b) == FLt(b, a)
FLe(a, b) == a = b \/ FLt(a, b)
\* Math.max
FMax(a, b) == IF FLt(a, b) THEN b ELSE a
\* Math.min
FMin(a, b) == IF FLt(b, a) THEN b ELSE a

\* Math.PI
FPi == [neg |-> FALSE, mant |-> <<11544, 10376, 2029, 201>>, exp |-> -51]

\* Math.cos, at the one argument this model gives it
FCos(x) == CASE FIsZero(x) -> FInt(1)

(***************************************************************************)
(* computeScale (geometryUtils.ts) as the engine computes it: every        *)
(* operation rounded to binary64                                           *)
(***************************************************************************)
MODEL_SIZE_MM == 200

\* mPerDegLat, and the factor of mPerDegLon
MetresPerDegree == 111320

latLonToLocalMetres64(lat, lon, b) ==
    Let(FDiv(FAdd(b[1], b[3]), FInt(2)), LAMBDA centLat :
    Let(FDiv(FAdd(b[2], b[4]), FInt(2)), LAMBDA centLon :
    Let(FMul(FInt(MetresPerDegree), FCos(FDiv(FMul(centLat, FPi), FInt(180)))),
        LAMBDA mPerDegLon :
        <<FMul(FSub(lon, centLon), mPerDegLon),
          FMul(FSub(lat, centLat), FInt(MetresPerDegree))>>)))

\* computeScale64 falling back to 1 when either dimension is 0
computeScale64AnyZero(b) ==
    Let(FMul(FAbs(latLonToLocalMetres64(b[1], b[4], b)[1]), FInt(2)), LAMBDA realWidthM :
    Let(FMul(FAbs(latLonToLocalMetres64(b[3], b[2], b)[2]), FInt(2)), LAMBDA realHeightM :
    Let(FMax(realWidthM, realHeightM), LAMBDA maxDim :
    Let(IF FGt(realWidthM, FZero) /\ FGt(realHeightM, FZero)
        THEN FDiv(FInt(MODEL_SIZE_MM), maxDim) ELSE FInt(1),
        LAMBDA scaleMMperM :
        [scaleMMperM |-> scaleMMperM,
         realWidthM |-> realWidthM,
         realHeightM |-> realHeightM,
         modelWidthMm |-> FMul(realWidthM, scaleMMperM),
         modelDepthMm |-> FMul(realHeightM, scaleMMperM)]))))

computeScale64(b) ==
    Let(FMul(FAbs(latLonToLocalMetres64(b[1], b[4], b)[1]), FInt(2)), LAMBDA realWidthM :
    Let(FMul(FAbs(latLonToLocalMetres64(b[3], b[2], b)[2]), FInt(2)), LAMBDA realHeightM :
    Let(FMax(realWidthM, realHeightM), LAMBDA maxDim :
    Let(IF FGt(maxDim, FZero) THEN FDiv(FInt(MODEL_SIZE_MM), maxDim) ELSE FInt(1),
        LAMBDA scaleMMperM :
        [scaleMMperM |-> scaleMMperM,
         realWidthM |-> realWidthM,
         realHeightM |-> realHeightM,
         modelWidthMm |-> FMul(realWidthM, scaleMMperM),
         modelDepthMm |-> FMul(realHeightM, scaleMMperM)]))))

(***************************************************************************)
(* Selections of the scaling specification: centred on latitude 0 and      *)
(* longitude 0, half-extents in 64ths of a degree                          *)
(***************************************************************************)
MaxHalfExtent == 8

HalfExtents == {FDyadic(a, 6) : a \in 0..MaxHalfExtent}

ScaleInit ==
    /\ TagIdle /\ ClipIdle /\ RingIdle /\ SeaIdle /\ BufferIdle /\ ParseIdle /\ HookIdle
    /\ NoNodeMap /\ NoBounds
    /\ selection \in {<<FNeg(n), FNeg(e), n, e>> : n \in HalfExtents, e \in HalfExtents}
    /\ scaled = <<>>
    /\ pc = "start"

Scale ==
    /\ pc = "start"
    /\ pc' = "done"
    /\ scaled' = computeScale64(selection)
    /\ UNCHANGED <<tagVars, selection, clipVars, ringVars, seaVars, bufferVars, parseVars, hookVars,
                   nodeMap, bounds>>

SpecScale == ScaleInit /\ [][Scale]_vars

\* C6: for every selection with a positive width or height, the larger of
\* modelWidthMm and modelDepthMm is exactly 200 and neither exceeds 200.
C6_FootprintFilled ==
    (/\ pc = "done"
     /\ FGt(scaled.realWidthM, FZero) \/ FGt(scaled.realHeightM, FZero))
    => /\ FMax(scaled.modelWidthMm, scaled.modelDepthMm) = FInt(MODEL_SIZE_MM)
       /\ FLe(scaled.modelWidthMm, FInt(MODEL_SIZE_MM))
       /\ FLe(scaled.modelDepthMm, FInt(MODEL_SIZE_MM))


(***************************************************************************)
(* The exact-arithmetic geometry that parseElements calls                  *)
(* (geometryUtils.ts).  The functions are the ones of src/src: they take   *)
(* no bearing, and the bearing that useOverpassData.ts passes is ignored.  *)
(***************************************************************************)
MAX_BUILDING_HEIGHT_MM == 40

\* Math.cos((centLat * Math.PI) / 180), at the one latitude this model gives it
CosOfDegrees(d) == CASE d = R(0) -> R(1)

latLonToLocalMetres(lat, lon, b) ==
    Let(RDiv(RAdd(b[1], b[3]), R(2)), LAMBDA centLat :
    Let(RDiv(RAdd(b[2], b[4]), R(2)), LAMBDA centLon :
    Let(RMul(R(MetresPerDegree), CosOfDegrees(centLat)), LAMBDA mPerDegLon :
        <<RMul(RSub(lon, centLon), mPerDegLon),
          RMul(RSub(lat, centLat), R(MetresPerDegree))>>)))

computeScale(b) ==
    Let(RMul(RAbs(latLonToLocalMetres(b[1], b[4], b)[1]), R(2)), LAMBDA realWidthM :
    Let(RMul(RAbs(latLonToLocalMetres(b[3], b[2], b)[2]), R(2)), LAMBDA realHeightM :
    Let(RMax(realWidthM, realHeightM), LAMBDA maxDim :
    Let(IF RGt(maxDim, R(0)) THEN RDiv(R(MODEL_SIZE_MM), maxDim) ELSE R(1),
        LAMBDA scaleMMperM :
        [scaleMMperM |-> scaleMMperM,
         realWidthM |-> realWidthM,
         realHeightM |-> realHeightM,
         modelWidthMm |-> RMul(realWidthM, scaleMMperM),
         modelDepthMm |-> RMul(realHeightM, scaleMMperM)]))))

\* coords.map(...) of projectPolygon and projectRoad: [lat, lon] to model mm
ProjectPoints(coords, b, scaleMMperM) ==
    [i \in 1..Len(coords) |->
        Let(latLonToLocalMetres(coords[i][1], coords[i][2], b), LAMBDA m :
            <<RMul(m[1], scaleMMperM), RMul(m[2], scaleMMperM)>>)]

\* the clip rectangle of the base plate
BasePlate(modelWidthMm, modelDepthMm) ==
    Let(RDiv(modelWidthMm, R(2)), LAMBDA halfW :
    Let(RDiv(modelDepthMm, R(2)), LAMBDA halfD :
        [minX |-> RNeg(halfW), minY |-> RNeg(halfD), maxX |-> halfW, maxY |-> halfD]))

\* projectPolygon with both model dimensions given, as parseElements calls it
projectPolygon(coords, b, scaleMMperM, modelWidthMm, modelDepthMm) ==
    clipPolygon(ProjectPoints(coords, b, scaleMMperM), BasePlate(modelWidthMm, modelDepthMm))

classifyRoad(highway) ==
    IF highway \in {"motorway", "trunk", "primary", "secondary", "motorway_link",
                    "trunk_link", "primary_link", "secondary_link"}
    THEN "major"
    ELSE IF highway \in {"tertiary", "residential", "unclassified", "living_street",
                         "service", "tertiary_link"}
    THEN "minor"
    ELSE "path"

\* the switch has no case for any other kind: it returns undefined, and
\* undefined * scaleMMperM is NaN
roadHalfWidthMetres(kind) ==
    CASE kind = "major" -> R(6)
      [] kind = "minor" -> R(3)
      [] kind = "path" -> Rat(3, 2)
      [] OTHER -> NaN

projectRoad(coords, b, scaleMMperM, kind, modelWidthMm, modelDepthMm) ==
    Let(bufferLineToPolygon(ProjectPoints(coords, b, scaleMMperM),
                            RMul(roadHalfWidthMetres(kind), scaleMMperM)),
        LAMBDA buffered :
            IF Len(buffered) < 3 THEN <<>>
            ELSE clipPolygon(buffered, BasePlate(modelWidthMm, modelDepthMm)))

(***************************************************************************)
(* Tags.  A tag set is a function from keys to values; a missing tag set   *)
(* is the empty function.  The values of height and building:levels are    *)
(* sequences of characters, all other values are strings.                  *)
(***************************************************************************)
NoTags == <<>>

\* tags[k] is a non-empty string
HasTag(tags, k) == k \in DOMAIN tags /\ tags[k] # ""
\* tags[k] === v
TagIs(tags, k, v) == k \in DOMAIN tags /\ tags[k] = v
\* tags[k] is a non-empty character sequence
HasChars(tags, k) == k \in DOMAIN tags /\ Len(tags[k]) > 0

IsDigit(c) == c \in {"0", "1", "2", "3", "4", "5", "6", "7", "8", "9"}

DigitValue(c) ==
    CASE c = "0" -> 0 [] c = "1" -> 1 [] c = "2" -> 2 [] c = "3" -> 3 [] c = "4" -> 4
      [] c = "5" -> 5 [] c = "6" -> 6 [] c = "7" -> 7 [] c = "8" -> 8 [] c = "9" -> 9

RECURSIVE SkipSpaces(_)
SkipSpaces(cs) == IF Len(cs) > 0 /\ cs[1] = " " THEN SkipSpaces(Tail(cs)) ELSE cs

\* the length of the longest prefix of digits
RECURSIVE DigitRun(_)
DigitRun(cs) == IF Len(cs) > 0 /\ IsDigit(cs[1]) THEN 1 + DigitRun(Tail(cs)) ELSE 0

\* the number the first n characters, all digits, denote
RECURSIVE DigitsValue(_, _)
DigitsValue(cs, n) ==
    IF n = 0 THEN 0 ELSE 10 * DigitsValue(cs, n - 1) + DigitValue(cs[n])

RECURSIVE Pow10(_)
Pow10(k) == IF k = 0 THEN 1 ELSE 10 * Pow10(k - 1)

HasSign(cs) == Len(cs) > 0 /\ cs[1] \in {"+", "-"}
Unsigned(cs) == IF HasSign(cs) THEN Tail(cs) ELSE cs
Signed(cs, a) == IF Len(cs) > 0 /\ cs[1] = "-" THEN RNeg(a) ELSE a

\* parseFloat: leading spaces, a sign, digits, a fraction; NaN without a digit.
\* Exponents and "Infinity" are not written with the characters of this model.
parseFloat(chars) ==
    Let(SkipSpaces(chars), LAMBDA cs :
    Let(Unsigned(cs), LAMBDA body :
    Let(DigitRun(body), LAMBDA whole :
    Let(IF Len(body) > whole /\ body[whole + 1] = "."
        THEN DigitRun(SubSeq(body, whole + 2, Len(body))) ELSE 0, LAMBDA frac :
        IF whole + frac = 0 THEN NaN
        ELSE Signed(cs, RAdd(R(DigitsValue(body, whole)),
                             Rat(DigitsValue(SubSeq(body, whole + 2, Len(body)), frac),
                                 Pow10(frac))))))))

\* parseInt(chars, 10): leading spaces, a sign, digits; NaN without a digit
parseInt(chars) ==
    Let(SkipSpaces(chars), LAMBDA cs :
    Let(Unsigned(cs), LAMBDA body :
    Let(DigitRun(body), LAMBDA whole :
        IF whole = 0 THEN NaN ELSE Signed(cs, R(DigitsValue(body, whole))))))

\* buildingHeightMm with a storey height that Math.random has a part in
buildingHeightMmRandomStorey(tags, scaleMMperM, rnd, used) ==
    Let(IF HasChars(tags, "height")
        THEN Let(parseFloat(tags["height"]), LAMBDA metres :
                 [metres |-> IF IsNaN(metres) THEN R(10) ELSE metres, used |-> used])
        ELSE IF HasChars(tags, "building:levels")
        THEN Let(parseInt(tags["building:levels"]), LAMBDA levels :
                 [metres |-> RMul(IF IsNaN(levels) THEN R(3) ELSE levels,
                                  RAdd(R(3), rnd[1])),
                  used |-> used])
        ELSE [metres |-> RAdd(R(6), RMul(rnd[used + 1], R(12))), used |-> used + 1],
        LAMBDA h :
            [heightMm |-> RMin(RMul(h.metres, scaleMMperM), R(MAX_BUILDING_HEIGHT_MM)),
             used |-> h.used])

\* buildingHeightMm; rnd holds the values Math.random returns, `used` of them
\* are consumed already.  Yields the height and the new `used`.
buildingHeightMm(tags, scaleMMperM, rnd, used) ==
    Let(IF HasChars(tags, "height")
        THEN Let(parseFloat(tags["height"]), LAMBDA metres :
                 [metres |-> IF IsNaN(metres) THEN R(10) ELSE metres, used |-> used])
        ELSE IF HasChars(tags, "building:levels")
        THEN Let(parseInt(tags["building:levels"]), LAMBDA levels :
                 [metres |-> RMul(IF IsNaN(levels) THEN R(3) ELSE levels, R(3)),
                  used |-> used])
        ELSE [metres |-> RAdd(R(6), RMul(rnd[used + 1], R(12))), used |-> used + 1],
        LAMBDA h :
            [heightMm |-> RMin(RMul(h.metres, scaleMMperM), R(MAX_BUILDING_HEIGHT_MM)),
             used |-> h.used])


(***************************************************************************)
(* parseElements (useOverpassData.ts).  An element is a record with a      *)
(* type: a node with id, lat, lon; a way with id, nodes, tags; a relation  *)
(* with id, members, tags.  The result is a scene or NullScene.            *)
(***************************************************************************)
\* classify testing for water before coastline
classifyWaterFirst(tags) ==
    IF HasTag(tags, "building") THEN "building"
    ELSE IF \/ TagIs(tags, "natural", "water")
            \/ TagIs(tags, "natural", "bay")
            \/ HasTag(tags, "waterway")
            \/ TagIs(tags, "landuse", "reservoir")
    THEN "water"
    ELSE IF TagIs(tags, "natural", "coastline") THEN "coastline"
    ELSE IF HasTag(tags, "highway") THEN "road"
    ELSE IF HasTag(tags, "railway") THEN "railway"
    ELSE "none"

\* null is "none"; a missing tag set is the empty one
classify(tags) ==
    IF HasTag(tags, "building") THEN "building"
    ELSE IF TagIs(tags, "natural", "coastline") THEN "coastline"
    ELSE IF \/ TagIs(tags, "natural", "water")
            \/ TagIs(tags, "natural", "bay")
            \/ HasTag(tags, "waterway")
            \/ TagIs(tags, "landuse", "reservoir")
    THEN "water"
    ELSE IF HasTag(tags, "highway") THEN "road"
    ELSE IF HasTag(tags, "railway") THEN "railway"
    ELSE "none"

\* valid is false for null: a node is missing from the map
resolveWayCoords(nodeIds, nm) ==
    IF \A i \in 1..Len(nodeIds) : nodeIds[i] \in DOMAIN nm
    THEN [valid |-> TRUE, coords |-> [i \in 1..Len(nodeIds) |-> nm[nodeIds[i]]]]
    ELSE [valid |-> FALSE, coords |-> <<>>]

\* nodeMap after the first i elements: a later node replaces an earlier one
RECURSIVE NodeMapUpTo(_, _)
NodeMapUpTo(els, i) ==
    IF i = 0 THEN <<>>
    ELSE IF els[i].type = "node"
    THEN (els[i].id :> <<els[i].lat, els[i].lon>>) @@ NodeMapUpTo(els, i - 1)
    ELSE NodeMapUpTo(els, i - 1)

\* ways.values() after the first i elements: a Map keeps the position of the
\* first insertion of an id and the value of the last
RECURSIVE WaysUpTo(_, _)
WaysUpTo(els, i) ==
    IF i = 0 THEN <<>>
    ELSE Let(WaysUpTo(els, i - 1), LAMBDA ws :
             IF els[i].type # "way" THEN ws
             ELSE IF \E j \in 1..Len(ws) : ws[j].id = els[i].id
             THEN [j \in 1..Len(ws) |-> IF ws[j].id = els[i].id THEN els[i] ELSE ws[j]]
             ELSE Append(ws, els[i]))

RelationsOf(els) == SelectSeq(els, LAMBDA el : el.type = "relation")

\* ways.get(ref), when the map has it
WayOf(ws, ref) == ws[CHOOSE j \in 1..Len(ws) : ws[j].id = ref]

NodesOf(ws) == [i \in 1..Len(ws) |-> ws[i].nodes]

\* what the loops have collected; used counts the calls of Math.random
NothingParsed ==
    [buildings |-> <<>>, water |-> <<>>, roads |-> <<>>, coastlineWays |-> <<>>, used |-> 0]

\* the road and the railway branch of the way loop
RoadWay(st, way, kind, coords, b, sc) ==
    IF Len(coords) < 2 THEN st
    ELSE Let(IF kind = "road"
             THEN classifyRoad(IF "highway" \in DOMAIN way.tags
                               THEN way.tags["highway"] ELSE "")
             ELSE "railway", LAMBDA roadKind :
         Let(projectRoad(coords, b, sc.scaleMMperM, roadKind,
                         sc.modelWidthMm, sc.modelDepthMm), LAMBDA roadPoly :
             IF Len(roadPoly) < 3 THEN st
             ELSE [st EXCEPT !.roads = Append(@, [polygon |-> roadPoly, kind |-> roadKind])]))

\* AreaWay pushing the projected polygon whatever its length
AreaWayUnchecked(st, way, kind, coords, b, sc, rnd) ==
    IF Len(coords) < 3 THEN st
    ELSE IF kind = "water" /\ ~(Len(way.nodes) > 2 /\ way.nodes[1] = way.nodes[Len(way.nodes)])
    THEN st
    ELSE Let(projectPolygon(coords, b, sc.scaleMMperM, sc.modelWidthMm, sc.modelDepthMm),
             LAMBDA areaPoly :
             IF kind = "building"
             THEN Let(buildingHeightMm(way.tags, sc.scaleMMperM, rnd, st.used), LAMBDA h :
                      [st EXCEPT !.buildings =
                                      Append(@, [polygon |-> areaPoly, heightMm |-> h.heightMm]),
                                 !.used = h.used])
             ELSE [st EXCEPT !.water = Append(@, [polygon |-> areaPoly, holes |-> <<>>])])

\* AreaWay without the test that a water way is closed
AreaWayAnyWater(st, way, kind, coords, b, sc, rnd) ==
    IF Len(coords) < 3 THEN st
    ELSE Let(projectPolygon(coords, b, sc.scaleMMperM, sc.modelWidthMm, sc.modelDepthMm),
             LAMBDA areaPoly :
             IF Len(areaPoly) < 3 THEN st
             ELSE IF kind = "building"
             THEN Let(buildingHeightMm(way.tags, sc.scaleMMperM, rnd, st.used), LAMBDA h :
                      [st EXCEPT !.buildings =
                                      Append(@, [polygon |-> areaPoly, heightMm |-> h.heightMm]),
                                 !.used = h.used])
             ELSE [st EXCEPT !.water = Append(@, [polygon |-> areaPoly, holes |-> <<>>])])

\* the building and the water branch of the way loop
AreaWay(st, way, kind, coords, b, sc, rnd) ==
    IF Len(coords) < 3 THEN st
    ELSE IF kind = "water" /\ ~(Len(way.nodes) > 2 /\ way.nodes[1] = way.nodes[Len(way.nodes)])
    THEN st
    ELSE Let(projectPolygon(coords, b, sc.scaleMMperM, sc.modelWidthMm, sc.modelDepthMm),
             LAMBDA areaPoly :
             IF Len(areaPoly) < 3 THEN st
             ELSE IF kind = "building"
             THEN Let(buildingHeightMm(way.tags, sc.scaleMMperM, rnd, st.used), LAMBDA h :
                      [st EXCEPT !.buildings =
                                      Append(@, [polygon |-> areaPoly, heightMm |-> h.heightMm]),
                                 !.used = h.used])
             ELSE [st EXCEPT !.water = Append(@, [polygon |-> areaPoly, holes |-> <<>>])])

\* one iteration of the loop over ways.values()
WayStep(st, way, nm, b, sc, rnd) ==
    Let(classify(way.tags), LAMBDA kind :
        IF kind = "none" THEN st
        ELSE IF kind = "coastline"
        THEN [st EXCEPT !.coastlineWays = Append(@, way)]
        ELSE Let(resolveWayCoords(way.nodes, nm), LAMBDA r :
                 IF ~r.valid THEN st
                 ELSE IF kind \in {"road", "railway"}
                 THEN RoadWay(st, way, kind, r.coords, b, sc)
                 ELSE AreaWay(st, way, kind, r.coords, b, sc, rnd)))

RECURSIVE WayLoop(_, _, _, _, _, _, _)
WayLoop(st, ws, i, nm, b, sc, rnd) ==
    IF i > Len(ws) THEN st
    ELSE Let(WayStep(st, ws[i], nm, b, sc, rnd), LAMBDA next :
             WayLoop(next, ws, i + 1, nm, b, sc, rnd))

\* the member ways of a relation with the given role that the map has
MemberWays(rel, ws, role) ==
    Let(SelectSeq(rel.members, LAMBDA m :
            m.type = "way" /\ m.role = role /\ \E j \in 1..Len(ws) : ws[j].id = m.ref),
        LAMBDA ms : [i \in 1..Len(ms) |-> WayOf(ws, ms[i].ref)])

\* the rings projected, those of fewer than 3 vertices left out
RECURSIVE ProjectedRings(_, _, _)
ProjectedRings(ringList, b, sc) ==
    IF Len(ringList) = 0 THEN <<>>
    ELSE Let(projectPolygon(Head(ringList), b, sc.scaleMMperM,
                            sc.modelWidthMm, sc.modelDepthMm), LAMBDA ringPoly :
             (IF Len(ringPoly) >= 3 THEN <<ringPoly>> ELSE <<>>)
             \o ProjectedRings(Tail(ringList), b, sc))

\* the water branch of the relation loop
WaterRelation(st, rel, ws, nm, b, sc) ==
    Let(ProjectedRings(assembleRings(NodesOf(MemberWays(rel, ws, "inner")), nm), b, sc),
        LAMBDA projectedHoles :
    Let(ProjectedRings(assembleRings(NodesOf(MemberWays(rel, ws, "outer")), nm), b, sc),
        LAMBDA outers :
        [st EXCEPT !.water =
            @ \o [i \in 1..Len(outers) |-> [polygon |-> outers[i], holes |-> projectedHoles]]]))

\* the other branch of the relation loop, for the outer member ways from i on
RECURSIVE OuterMembers(_, _, _, _, _, _, _, _, _)
OuterMembers(st, rel, kind, outerWays, i, nm, b, sc, rnd) ==
    IF i > Len(outerWays) THEN st
    ELSE Let(resolveWayCoords(outerWays[i].nodes, nm), LAMBDA r :
             IF ~r.valid \/ Len(r.coords) < 3
             THEN OuterMembers(st, rel, kind, outerWays, i + 1, nm, b, sc, rnd)
             ELSE Let(projectPolygon(r.coords, b, sc.scaleMMperM,
                                     sc.modelWidthMm, sc.modelDepthMm), LAMBDA memberPoly :
                      IF Len(memberPoly) < 3 \/ kind # "building"
                      THEN OuterMembers(st, rel, kind, outerWays, i + 1, nm, b, sc, rnd)
                      ELSE Let(buildingHeightMm(outerWays[i].tags @@ rel.tags,
                                                sc.scaleMMperM, rnd, st.used), LAMBDA h :
                               OuterMembers(
                                   [st EXCEPT !.buildings =
                                        Append(@, [polygon |-> memberPoly,
                                                   heightMm |-> h.heightMm]),
                                              !.used = h.used],
                                   rel, kind, outerWays, i + 1, nm, b, sc, rnd))))

\* one iteration of the loop over the relations
RelationStep(st, rel, ws, nm, b, sc, rnd) ==
    Let(classify(rel.tags), LAMBDA kind :
        IF kind = "none" THEN st
        ELSE IF kind = "water" /\ TagIs(rel.tags, "type", "waterway") THEN st
        ELSE IF kind = "water" THEN WaterRelation(st, rel, ws, nm, b, sc)
        ELSE OuterMembers(st, rel, kind, MemberWays(rel, ws, "outer"), 1, nm, b, sc, rnd))

RECURSIVE RelationLoop(_, _, _, _, _, _, _, _)
RelationLoop(st, rels, i, ws, nm, b, sc, rnd) ==
    IF i > Len(rels) THEN st
    ELSE Let(RelationStep(st, rels[i], ws, nm, b, sc, rnd), LAMBDA next :
             RelationLoop(next, rels, i + 1, ws, nm, b, sc, rnd))

\* the sea polygons of the coastline ways, projected and pushed to water
SeaWater(st, nm, b, sc) ==
    Let(buildSeaPolygons(NodesOf(st.coastlineWays), nm, b), LAMBDA made :
    Let(ProjectedRings([i \in 1..Len(made) |-> made[i].poly], b, sc), LAMBDA seas :
        [st EXCEPT !.water =
            @ \o [i \in 1..Len(seas) |-> [polygon |-> seas[i], holes |-> <<>>]]]))

NullScene == [null |-> TRUE]

\* parseElements returning a scene of three empty lists where it returns null
parseElementsNeverNull(els, b, rnd) ==
    Let(NodeMapUpTo(els, Len(els)), LAMBDA nm :
    Let(WaysUpTo(els, Len(els)), LAMBDA ws :
    Let(computeScale(b), LAMBDA sc :
    Let(WayLoop(NothingParsed, ws, 1, nm, b, sc, rnd), LAMBDA afterWays :
    Let(RelationLoop(afterWays, RelationsOf(els), 1, ws, nm, b, sc, rnd), LAMBDA afterRels :
    Let(SeaWater(afterRels, nm, b, sc), LAMBDA st :
        [null |-> FALSE, buildings |-> st.buildings, water |-> st.water,
         roads |-> st.roads, modelWidthMm |-> sc.modelWidthMm,
         modelDepthMm |-> sc.modelDepthMm]))))))

parseElements(els, b, rnd) ==
    Let(NodeMapUpTo(els, Len(els)), LAMBDA nm :
    Let(WaysUpTo(els, Len(els)), LAMBDA ws :
    Let(computeScale(b), LAMBDA sc :
    Let(WayLoop(NothingParsed, ws, 1, nm, b, sc, rnd), LAMBDA afterWays :
    Let(RelationLoop(afterWays, RelationsOf(els), 1, ws, nm, b, sc, rnd), LAMBDA afterRels :
    Let(SeaWater(afterRels, nm, b, sc), LAMBDA st :
        IF Len(st.buildings) = 0 /\ Len(st.water) = 0 /\ Len(st.roads) = 0
        THEN NullScene
        ELSE [null |-> FALSE, buildings |-> st.buildings, water |-> st.water,
              roads |-> st.roads, modelWidthMm |-> sc.modelWidthMm,
              modelDepthMm |-> sc.modelDepthMm]))))))


(***************************************************************************)
(* Elements of the parsing specification: the nodes of NodeCoord, then up  *)
(* to MaxFeatures features, each a few elements                            *)
(***************************************************************************)
MaxFeatures == 2

Way(id, nodes, tags) == [type |-> "way", id |-> id, nodes |-> nodes, tags |-> tags]
Relation(id, members, tags) ==
    [type |-> "relation", id |-> id, members |-> members, tags |-> tags]
Member(type, ref, role) == [type |-> type, ref |-> ref, role |-> role]

\* the nodes of NodeCoord and node 12, east of the selections like 6 and 10
NodeElements ==
    [n \in 1..10 |-> [type |-> "node", id |-> n, lat |-> NodeCoord[n][1], lon |-> NodeCoord[n][2]]]
    \o <<[type |-> "node", id |-> 12, lat |-> R(-1), lon |-> R(5)]>>

Building == "building" :> "yes"

FeaturePool ==
    {\* buildings: inside, partly outside, outside, without a height, with a missing
     \* node, a triangle outside, an open way
     <<Way(101, <<1, 2, 3, 4, 1>>, Building @@ ("height" :> <<"1", "2">>))>>,
     <<Way(102, <<5, 3, 8, 5>>, Building @@ ("building:levels" :> <<"3">>))>>,
     <<Way(103, <<6, 10, 6>>, Building)>>,
     <<Way(104, <<1, 2, 5, 1>>, Building)>>,
     <<Way(105, <<1, 2, 11, 1>>, Building @@ ("height" :> <<"9", ".", "5">>))>>,
     <<Way(118, <<6, 10, 12, 6>>, Building @@ ("height" :> <<"7">>))>>,
     <<Way(119, <<1, 2, 3>>, Building @@ ("building:levels" :> <<"1">>))>>,
     \* water: a closed way and an open way
     <<Way(106, <<1, 2, 3, 4, 1>>, "natural" :> "water")>>,
     <<Way(107, <<7, 5, 6>>, "waterway" :> "river")>>,
     \* roads and rails: through the selection, outside it and inside it
     <<Way(108, <<7, 5, 6>>, "highway" :> "primary")>>,
     <<Way(109, <<6, 10>>, "highway" :> "footway")>>,
     <<Way(110, <<9, 5, 8>>, "railway" :> "rail")>>,
     <<Way(120, <<1, 2>>, "railway" :> "tram")>>,
     \* a coastline in two ways, west-bound through the selection
     <<Way(111, <<6, 5>>, "natural" :> "coastline"),
       Way(112, <<5, 7>>, "natural" :> "coastline")>>,
     \* a water multipolygon: the outer ring in two ways, one hole
     <<Way(113, <<1, 2, 3>>, NoTags), Way(114, <<3, 4, 1>>, NoTags),
       Way(115, <<5, 2, 3, 5>>, NoTags),
       Relation(201, <<Member("way", 113, "outer"), Member("way", 114, "outer"),
                       Member("way", 115, "inner"), Member("way", 999, "inner"),
                       Member("node", 5, "label")>>,
                ("type" :> "multipolygon") @@ ("natural" :> "water"))>>,
     \* a building relation with two outer member ways
     <<Way(116, <<1, 2, 3, 4, 1>>, NoTags),
       Way(117, <<2, 3, 4>>, "building:levels" :> <<"2">>),
       Relation(202, <<Member("way", 116, "outer"), Member("way", 117, "outer")>>,
                ("type" :> "multipolygon") @@ Building)>>,
     \* a building relation with its outer ring in two open ways
     <<Way(121, <<1, 2, 3>>, NoTags), Way(122, <<3, 4, 1>>, NoTags),
       Relation(203, <<Member("way", 121, "outer"), Member("way", 122, "outer")>>,
                ("type" :> "multipolygon") @@ Building @@ ("height" :> <<"5">>))>>,
     \* a second way with the id 101
     <<Way(101, <<7, 5, 6>>, "highway" :> "residential")>>}

RECURSIVE Flatten(_)
Flatten(ss) == IF Len(ss) = 0 THEN <<>> ELSE Head(ss) \o Flatten(Tail(ss))

ParseBounds == {SelectionBounds, <<R(-1), R(-2), R(1), R(2)>>}

\* what Math.random returns, call after call; no feature of the pool makes
\* parseElements call it more than once
RandomStreams ==
    {[i \in 1..MaxFeatures |-> IF i % 2 = 1 THEN R(0) ELSE Rat(1, 2)],
     [i \in 1..MaxFeatures |-> IF i % 2 = 1 THEN Rat(3, 4) ELSE R(0)]}

ParseInit ==
    /\ TagIdle /\ ClipIdle /\ RingIdle /\ SeaIdle /\ BufferIdle /\ ScaleIdle /\ HookIdle /\ NoNodeMap
    /\ elements \in {NodeElements \o Flatten(fs) : fs \in SeqsUpTo(FeaturePool, MaxFeatures)}
    /\ bounds \in ParseBounds
    /\ randoms \in RandomStreams
    /\ scene = <<>>
    /\ pc = "start"

Parse ==
    /\ pc = "start"
    /\ pc' = "done"
    /\ scene' = parseElements(elements, bounds, randoms)
    /\ UNCHANGED <<tagVars, elements, randoms, clipVars, ringVars, seaVars, bufferVars, scaleVars,
                   hookVars, nodeMap, bounds>>

SpecParse == ParseInit /\ [][Parse]_vars

\* every polygon of a scene: footprints, water outlines, water holes, strips
ScenePolygons(sc) ==
    {sc.buildings[i].polygon : i \in 1..Len(sc.buildings)}
    \cup {sc.water[i].polygon : i \in 1..Len(sc.water)}
    \cup UNION {SeqRange(sc.water[i].holes) : i \in 1..Len(sc.water)}
    \cup {sc.roads[i].polygon : i \in 1..Len(sc.roads)}

\* C7: in every scene that parseElements returns, every polygon (building
\* footprint, water outline, water hole, road or rail strip) has at least 3
\* vertices.
C7_PolygonsHaveThreeVertices ==
    (pc = "done" /\ ~scene.null) => \A p \in ScenePolygons(scene) : Len(p) >= 3

\* the building ways of the elements whose projected polygon has fewer than 3
\* vertices
DegenerateBuildingWays ==
    {i \in 1..Len(elements) :
        /\ elements[i].type = "way"
        /\ classify(elements[i].tags) = "building"
        /\ \E r \in {resolveWayCoords(elements[i].nodes, NodeMapUpTo(elements, Len(elements)))},
              sc \in {computeScale(bounds)} :
              /\ r.valid
              /\ Len(r.coords) >= 3
              /\ Len(projectPolygon(r.coords, bounds, sc.scaleMMperM,
                                    sc.modelWidthMm, sc.modelDepthMm)) < 3}

\* C7 witness: a scene with one building, returned for elements that hold two
\* building ways, one of which clips to nothing
C7_Witness ==
    /\ pc = "done"
    /\ ~scene.null
    /\ Len(scene.buildings) = 1
    /\ DegenerateBuildingWays # {}
    /\ Cardinality({i \in 1..Len(elements) :
                       elements[i].type = "way" /\ classify(elements[i].tags) = "building"}) = 2


(***************************************************************************)
(* useOverpassData (useOverpassData.ts): fetchData and the callbacks of    *)
(* its retry chains.  A call of fetchData runs to its first await; each    *)
(* later action is one callback, run to the next await or to the return.   *)
(* calls holds the chains in flight by the number of their call, abortRef  *)
(* the number of the call whose controller abortRef.current holds.         *)
(***************************************************************************)
MAX_RETRIES == 10
BASE_DELAY_MS == 2000
MAX_DELAY_MS == 16000

MaxCalls == 2

\* controller.signal.aborted that never reads true
NeverAborted(c) == FALSE

\* controller.signal.aborted of call c
Aborted(c) == calls[c].aborted

\* the delay without the cap
RetryDelayUncapped(attempt) == BASE_DELAY_MS * Pow2(attempt - 1)

\* Math.min(BASE_DELAY_MS * Math.pow(2, attempt - 1), MAX_DELAY_MS)
RetryDelay(attempt) ==
    IF BASE_DELAY_MS * Pow2(attempt - 1) <= MAX_DELAY_MS
    THEN BASE_DELAY_MS * Pow2(attempt - 1)
    ELSE MAX_DELAY_MS

NoError == [null |-> TRUE]

\* the model dimensions of mockSceneData; its buildings, water and roads are
\* laid out from these and from Math.random and are left out
mockSceneData(b) ==
    Let(computeScale(b), LAMBDA sc :
        [modelWidthMm |-> sc.modelWidthMm, modelDepthMm |-> sc.modelDepthMm])

\* what fetchOverpass resolves with: elements without a usable feature and
\* elements with a building.  Neither makes parseElements call Math.random.
ResponsePool ==
    {NodeElements \o <<Way(103, <<6, 10, 6>>, Building)>>,
     NodeElements \o <<Way(101, <<1, 2, 3, 4, 1>>, Building @@ ("height" :> <<"1", "2">>))>>}

\* parseElements(elements, bounds) for each response and each selection, and
\* mockSceneData(bounds) for each selection, worked out once
ParsedResponse ==
    [els \in ResponsePool, b \in ParseBounds |-> parseElements(els, b, <<>>)]

MockScene == [b \in ParseBounds |-> mockSceneData(b)]

\* what a step did: the call it belongs to, the callback, the state it set
\* and whether it invoked parseElements
Step(c, event, wrote, parsed) ==
    [call |-> c, event |-> event, wrote |-> wrote, parsed |-> parsed]

\* the chains in flight without that of call c, which has returned
Returned(c) == [k \in DOMAIN calls \ {c} |-> calls[k]]

\* call c returns without setting anything
ReturnSilently(c, event) ==
    /\ calls' = Returned(c)
    /\ lastStep' = Step(c, event, {}, FALSE)
    /\ UNCHANGED <<loading, error, sceneData, retryAttempt, abortRef>>

\* NextAttempt leaving the loop instead of going round it
NextAttemptGivingUp(c, event, parsed) == ReturnSilently(c, event)

\* the end of iteration `attempt` < MAX_RETRIES without a return, and the next
\* iteration up to its await of the timer
NextAttempt(c, event, parsed) ==
    IF calls[c].attempt + 1 > MAX_RETRIES \/ Aborted(c)
    THEN ReturnSilently(c, event)
    ELSE /\ retryAttempt' = calls[c].attempt + 1
         /\ calls' = [calls EXCEPT ![c].attempt = @ + 1,
                                   ![c].at = "timer",
                                   ![c].waits = Append(@, RetryDelay(calls[c].attempt + 1))]
         /\ lastStep' = Step(c, event, {"retryAttempt"}, parsed)
         /\ UNCHANGED <<loading, error, sceneData, abortRef>>

\* fetchData(b): aborts the controller in abortRef, resets the state and runs
\* iteration 0 up to its await of fetchOverpass
FetchData(b) ==
    /\ abortRef < MaxCalls
    /\ abortRef' = abortRef + 1
    /\ calls' = [c \in DOMAIN calls |->
                     IF c = abortRef THEN [calls[c] EXCEPT !.aborted = TRUE]
                     ELSE calls[c]]
                 @@ (abortRef + 1 :>
                        [bounds |-> b, aborted |-> FALSE, attempt |-> 0, at |-> "fetch",
                         fetches |-> 1, waits |-> <<>>])
    /\ loading' = TRUE
    /\ error' = NoError
    /\ sceneData' = NullScene
    /\ retryAttempt' = 0
    /\ lastStep' = Step(abortRef + 1, "fetchData",
                        {"loading", "error", "sceneData", "retryAttempt"}, FALSE)

\* the timer of call c fires
TimerFires(c) ==
    /\ calls[c].at = "timer"
    /\ IF Aborted(c) THEN ReturnSilently(c, "timer")
       ELSE /\ calls' = [calls EXCEPT ![c].at = "fetch", ![c].fetches = @ + 1]
            /\ lastStep' = Step(c, "timer", {}, FALSE)
            /\ UNCHANGED <<loading, error, sceneData, retryAttempt, abortRef>>

\* fetchOverpass of call c resolves with the elements els
FetchResolves(c, els) ==
    /\ calls[c].at = "fetch"
    /\ IF Aborted(c) THEN ReturnSilently(c, "resolved")
       ELSE \E parsed \in {ParsedResponse[els, calls[c].bounds]} :
            IF ~parsed.null
            THEN /\ sceneData' = [null |-> FALSE, mock |-> FALSE, scene |-> parsed]
                 /\ loading' = FALSE
                 /\ calls' = Returned(c)
                 /\ lastStep' = Step(c, "resolved", {"sceneData", "loading"}, TRUE)
                 /\ UNCHANGED <<error, retryAttempt, abortRef>>
            ELSE IF calls[c].attempt = MAX_RETRIES
            THEN /\ sceneData' = [null |-> FALSE, mock |-> TRUE,
                                  scene |-> MockScene[calls[c].bounds]]
                 /\ loading' = FALSE
                 /\ calls' = Returned(c)
                 /\ lastStep' = Step(c, "resolved", {"sceneData", "loading"}, TRUE)
                 /\ UNCHANGED <<error, retryAttempt, abortRef>>
            ELSE NextAttempt(c, "resolved", TRUE)

\* FetchRejects giving up at the first rejection, whatever the attempt
FetchRejectsGivingUp(c) ==
    /\ calls[c].at = "fetch"
    /\ IF Aborted(c) THEN ReturnSilently(c, "rejected")
       ELSE /\ error' = [null |-> FALSE, message |-> "Failed to fetch OSM data"]
            /\ sceneData' = [null |-> FALSE, mock |-> TRUE,
                             scene |-> MockScene[calls[c].bounds]]
            /\ loading' = FALSE
            /\ calls' = Returned(c)
            /\ lastStep' = Step(c, "rejected", {"error", "sceneData", "loading"}, FALSE)
            /\ UNCHANGED <<retryAttempt, abortRef>>

\* fetchOverpass of call c throws: a network error or an HTTP status
FetchRejects(c) ==
    /\ calls[c].at = "fetch"
    /\ IF Aborted(c) THEN ReturnSilently(c, "rejected")
       ELSE IF calls[c].attempt = MAX_RETRIES
       THEN /\ error' = [null |-> FALSE, message |-> "Failed to fetch OSM data"]
            /\ sceneData' = [null |-> FALSE, mock |-> TRUE,
                             scene |-> MockScene[calls[c].bounds]]
            /\ loading' = FALSE
            /\ calls' = Returned(c)
            /\ lastStep' = Step(c, "rejected", {"error", "sceneData", "loading"}, FALSE)
            /\ UNCHANGED <<retryAttempt, abortRef>>
       ELSE NextAttempt(c, "rejected", FALSE)

HookInit ==
    /\ TagIdle /\ ClipIdle /\ RingIdle /\ SeaIdle /\ BufferIdle /\ ScaleIdle /\ ParseIdle
    /\ NoNodeMap /\ NoBounds
    /\ loading = FALSE
    /\ error = NoError
    /\ sceneData = NullScene
    /\ retryAttempt = 0
    /\ abortRef = 0
    /\ calls = <<>>
    /\ lastStep = Step(0, "none", {}, FALSE)
    /\ pc = "start"

HookNext ==
    /\ \/ \E b \in ParseBounds : FetchData(b)
       \/ \E c \in DOMAIN calls : TimerFires(c)
       \/ \E c \in DOMAIN calls, els \in ResponsePool : FetchResolves(c, els)
       \/ \E c \in DOMAIN calls : FetchRejects(c)
    /\ UNCHANGED <<tagVars, pc, clipVars, ringVars, seaVars, bufferVars, scaleVars, parseVars,
                   nodeMap, bounds>>

SpecHook == HookInit /\ [][HookNext]_vars

\* C8: a step of a call that a newer fetchData call has superseded sets none of
\* sceneData, loading, error and retryAttempt and does not invoke parseElements.
C8_SupersededCallSilent ==
    (lastStep.call # abortRef) => (lastStep.wrote = {} /\ ~lastStep.parsed)

\* C8 witness: the fetch of a superseded call resolves while the newer call is
\* still in flight, and the state is the one the newer call has set
C8_Witness ==
    /\ lastStep.call # 0
    /\ lastStep.call # abortRef
    /\ lastStep.event = "resolved"
    /\ lastStep.call \notin DOMAIN calls
    /\ abortRef \in DOMAIN calls
    /\ calls[abortRef].at = "timer"
    /\ loading
    /\ sceneData.null

\* the waits before retry 1, 2, ..., 10
ExpectedWaits == <<2000, 4000, 8000, 16000, 16000, 16000, 16000, 16000, 16000, 16000>>

\* C9: a fetchData call issues at most 11 fetch attempts, the first without a
\* wait, and the wait before retry k is min(2000 * 2^(k-1), 16000) ms.
C9_BoundedBackoff ==
    \A c \in DOMAIN calls :
        /\ calls[c].fetches <= MAX_RETRIES + 1
        /\ calls[c].fetches <= 11
        /\ calls[c].fetches >= 1
        /\ calls[c].fetches \in {Len(calls[c].waits), Len(calls[c].waits) + 1}
        /\ Len(calls[c].waits) <= 10
        /\ calls[c].waits = SubSeq(ExpectedWaits, 1, Len(calls[c].waits))

\* C9 witness: a call that has issued its 11th fetch after 10 waits
C9_Witness ==
    \E c \in DOMAIN calls : calls[c].fetches = 11 /\ Len(calls[c].waits) = 10


(***************************************************************************)
(* classify applied to one tag set                                         *)
(***************************************************************************)
Absent == "absent"

\* the values a tag set of the specification gives to each key, or none
TagValues ==
    [building : {Absent, "yes", ""},
     natural : {Absent, "water", "bay", "coastline", "wood"},
     waterway : {Absent, "river"},
     landuse : {Absent, "reservoir", "forest"},
     highway : {Absent, "primary"},
     railway : {Absent, "rail"}]

TagSetOf(choice) == [k \in {k \in DOMAIN choice : choice[k] # Absent} |-> choice[k]]

TagSets == {TagSetOf(choice) : choice \in TagValues}

ClassifyInit ==
    /\ ClipIdle /\ RingIdle /\ SeaIdle /\ BufferIdle /\ ScaleIdle /\ ParseIdle /\ HookIdle
    /\ NoNodeMap /\ NoBounds
    /\ tagSet \in TagSets
    /\ classified = <<>>
    /\ heightScale = <<>> /\ heightResult = <<>>
    /\ pc = "start"

Classify ==
    /\ pc = "start"
    /\ pc' = "done"
    /\ classified' = classify(tagSet)
    /\ UNCHANGED <<tagSet, heightScale, heightResult, clipVars, ringVars, seaVars,
                   bufferVars, scaleVars, parseVars, hookVars, nodeMap, bounds>>

SpecClassify == ClassifyInit /\ [][Classify]_vars

\* the tag set has a tag of the class
Matches(t, class) ==
    CASE class = "building" -> "building" \in DOMAIN t /\ t["building"] # ""
      [] class = "water" ->
            \/ "natural" \in DOMAIN t /\ t["natural"] \in {"water", "bay"}
            \/ "waterway" \in DOMAIN t /\ t["waterway"] # ""
            \/ "landuse" \in DOMAIN t /\ t["landuse"] = "reservoir"
      [] class = "coastline" -> "natural" \in DOMAIN t /\ t["natural"] = "coastline"
      [] class = "road" -> "highway" \in DOMAIN t /\ t["highway"] # ""
      [] class = "railway" -> "railway" \in DOMAIN t /\ t["railway"] # ""

\* the first class of the order that the tag set matches, or none
FirstMatch(t, order) ==
    IF \E i \in 1..Len(order) : Matches(t, order[i])
    THEN order[MinOf({i \in 1..Len(order) : Matches(t, order[i])})]
    ELSE "none"

\* C11 as stated: the class is the first that matches in the order building,
\* water, coastline, road, railway, and none when no class matches.
C11_Original ==
    pc = "done" =>
        classified = FirstMatch(tagSet, <<"building", "water", "coastline", "road", "railway">>)

\* C11: the class is the first that matches in the order building, coastline,
\* water, road, railway, and none when no class matches.
C11_CoastlineBeforeWater ==
    pc = "done" =>
        classified = FirstMatch(tagSet, <<"building", "coastline", "water", "road", "railway">>)

\* C11 witness: a tag set of a coastline that is also a waterway
C11_Witness ==
    /\ pc = "done"
    /\ Matches(tagSet, "coastline") /\ Matches(tagSet, "water")
    /\ ~Matches(tagSet, "building")
    /\ classified = "coastline"


(***************************************************************************)
(* parseElements run twice on the same elements and bounds; Math.random    *)
(* returns randoms[1] to the first run and randoms[2] to the second, and   *)
(* scene holds the results in the order of the runs.                       *)
(***************************************************************************)
\* what Math.random returns to the two runs: streams that differ at every call
RandomStreamPairs ==
    {<<[i \in 1..MaxFeatures |-> IF i % 2 = 1 THEN R(0) ELSE Rat(1, 2)],
       [i \in 1..MaxFeatures |-> IF i % 2 = 1 THEN Rat(3, 4) ELSE R(0)]>>}

RerunInit ==
    /\ TagIdle /\ ClipIdle /\ RingIdle /\ SeaIdle /\ BufferIdle /\ ScaleIdle /\ HookIdle
    /\ NoNodeMap
    /\ elements \in {NodeElements \o Flatten(fs) : fs \in SeqsUpTo(FeaturePool, MaxFeatures)}
    /\ bounds \in ParseBounds
    /\ randoms \in RandomStreamPairs
    /\ scene = <<>>
    /\ pc = "start"

FirstRun ==
    /\ pc = "start"
    /\ pc' = "once"
    /\ scene' = <<parseElements(elements, bounds, randoms[1])>>
    /\ UNCHANGED <<tagVars, elements, randoms, clipVars, ringVars, seaVars, bufferVars,
                   scaleVars, hookVars, nodeMap, bounds>>

SecondRun ==
    /\ pc = "once"
    /\ pc' = "done"
    /\ scene' = Append(scene, parseElements(elements, bounds, randoms[2]))
    /\ UNCHANGED <<tagVars, elements, randoms, clipVars, ringVars, seaVars, bufferVars,
                   scaleVars, hookVars, nodeMap, bounds>>

SpecRerun == RerunInit /\ [][FirstRun \/ SecondRun]_vars

\* the tag set has neither a height nor a building:levels tag
LacksHeight(t) == ~HasChars(t, "height") /\ ~HasChars(t, "building:levels")

\* the outer member ways of a relation, as often as they are members
OuterRefs(rel) == SelectSeq(rel.members, LAMBDA m : m.type = "way" /\ m.role = "outer")

\* how many buildings of the elements have neither tag: building ways, and
\* outer members of building relations whose own and relation's tags lack both
FallbackBuildings(els) ==
    Let(WaysUpTo(els, Len(els)), LAMBDA ws :
    Let(RelationsOf(els), LAMBDA rels :
        Cardinality({j \in 1..Len(ws) :
                        classify(ws[j].tags) = "building" /\ LacksHeight(ws[j].tags)})
        + Cardinality({<<i, k>> \in (1..Len(rels)) \X (1..5) :
                        /\ classify(rels[i].tags) = "building"
                        /\ k <= Len(OuterRefs(rels[i]))
                        /\ \E j \in 1..Len(ws) :
                              /\ ws[j].id = OuterRefs(rels[i])[k].ref
                              /\ LacksHeight(ws[j].tags @@ rels[i].tags)})))

\* the buildings at the same place of two scenes whose heights differ
HeightsDiffer(a, b) == {i \in 1..Len(a.buildings) : a.buildings[i].heightMm # b.buildings[i].heightMm}

Complete(chain) == \A i \in 1..Len(chain) : chain[i] \in DOMAIN nodeMap

\* C14: every ring that assembleRings returns is a chain all of whose nodes
\* are in the node map, with the coordinates of all its nodes in order, so a
\* chain with a missing node gives no ring; and resolveWayCoords gives null for
\* a member way with a missing node and all coordinates for any other.
C14_MissingNodeDropsChain ==
    pc = "done" =>
        \E chains \in {AssembleChains(memberWays)} :
            /\ \A i \in 1..Len(rings) :
                  \E j \in 1..Len(chains) :
                      /\ Complete(chains[j])
                      /\ rings[i] = [k \in 1..Len(chains[j]) |-> nodeMap[chains[j][k]]]
            /\ Len(rings) <= Cardinality({j \in 1..Len(chains) : Complete(chains[j])})
            /\ \A i \in 1..Len(memberWays) :
                  \E r \in {resolveWayCoords(memberWays[i], nodeMap)} :
                      /\ r.valid = Complete(memberWays[i])
                      /\ Len(r.coords) = IF r.valid THEN Len(memberWays[i]) ELSE 0

\* C14 witness: a chain of two ways through a node that the map lacks, three
\* of its nodes coming before the missing one, and no ring returned
C14_Witness ==
    /\ pc = "done"
    /\ memberWays = <<(<<1, 2, 3>>), (<<3, 4, 1>>)>>
    /\ 4 \notin DOMAIN nodeMap
    /\ rings = <<>>


(***************************************************************************)
(* Degenerate selections, for the selections of SpecScale                  *)
(***************************************************************************)
ZeroHeight(b) == b[1] = b[3]
ZeroWidth(b) == b[2] = b[4]

\* C15 as stated: for every selection of zero width or zero height,
\* computeScale returns the scale 1.
C15_Original ==
    (pc = "done" /\ (ZeroWidth(selection) \/ ZeroHeight(selection)))
        => scaled.scaleMMperM = FInt(1)

\* C15: computeScale returns the scale 1 for a selection of zero width and
\* zero height; for a selection of zero width and positive height, or zero
\* height and positive width, it returns 200 divided by the positive
\* dimension, which is not a division by zero, and a model of width or depth 0.
C15_PointSelectionScaleOne ==
    pc = "done" =>
        /\ (ZeroWidth(selection) /\ ZeroHeight(selection)) =>
              /\ scaled.scaleMMperM = FInt(1)
              /\ scaled.modelWidthMm = FZero /\ scaled.modelDepthMm = FZero
        /\ (ZeroWidth(selection) /\ ~ZeroHeight(selection)) =>
              /\ FGt(scaled.realHeightM, FZero)
              /\ scaled.scaleMMperM = FDiv(FInt(MODEL_SIZE_MM), scaled.realHeightM)
              /\ scaled.modelWidthMm = FZero
        /\ (ZeroHeight(selection) /\ ~ZeroWidth(selection)) =>
              /\ FGt(scaled.realWidthM, FZero)
              /\ scaled.scaleMMperM = FDiv(FInt(MODEL_SIZE_MM), scaled.realWidthM)
              /\ scaled.modelDepthMm = FZero

\* C15 witness: a selection of zero width and positive height, scaled by a
\* factor other than 1
C15_Witness ==
    /\ pc = "done"
    /\ ZeroWidth(selection) /\ ~ZeroHeight(selection)
    /\ scaled.scaleMMperM # FInt(1)


(***************************************************************************)
(* Degenerate lines, for the lines of SpecBuffer                           *)
(***************************************************************************)
HasZeroSegment(ln) == \E i \in 1..(Len(ln) - 1) : ln[i] = ln[i + 1]

\* C16 as stated: bufferLineToPolygon returns the empty polygon for a line of
\* fewer than 2 points and for a line with a zero-length segment.
C16_Original ==
    (pc = "done" /\ (Len(line) < 2 \/ HasZeroSegment(line))) => strip = <<>>

\* C16: bufferLineToPolygon returns the empty polygon for a line of fewer than
\* 2 points.  For a line of n >= 2 points it returns 2n vertices, also when a
\* segment has length 0: an end point of such a segment at an end of the line
\* is its own left and right vertex, and a line of equal points gives 2n
\* copies of the point.  Nothing is divided by zero.
C16_ZeroSegmentCollapses ==
    pc = "done" =>
        /\ Len(line) < 2 => strip = <<>>
        /\ Len(line) >= 2 =>
              /\ Len(strip) = 2 * Len(line)
              /\ line[1] = line[2] => strip[1] = line[1] /\ strip[Len(strip)] = line[1]
              /\ line[Len(line) - 1] = line[Len(line)] =>
                    strip[Len(line)] = line[Len(line)] /\ strip[Len(line) + 1] = line[Len(line)]
              /\ (\A i \in 1..Len(line) : line[i] = line[1]) =>
                    \A j \in 1..Len(strip) : strip[j] = line[1]

\* C16 witness: a line of three points that ends with a zero-length segment,
\* buffered to six vertices
C16_Witness ==
    /\ pc = "done"
    /\ Len(line) = 3
    /\ line[1] # line[2] /\ line[2] = line[3]
    /\ Len(strip) = 6


(***************************************************************************)
(* Buildings beyond one side of the selection, for the elements of         *)
(* SpecParse                                                               *)
(***************************************************************************)
\* every [lat, lon] lies strictly beyond the same side of the bounds
OutsideOneSide(coords, b) ==
    \/ \A i \in 1..Len(coords) : RLt(coords[i][1], b[1])
    \/ \A i \in 1..Len(coords) : RGt(coords[i][1], b[3])
    \/ \A i \in 1..Len(coords) : RLt(coords[i][2], b[2])
    \/ \A i \in 1..Len(coords) : RGt(coords[i][2], b[4])

\* the building ways that resolve to 3 or more coordinates, by their place in
\* ways.values(), and those of them beyond one side of the bounds
ResolvedBuildingWays(ws, nm) ==
    {j \in 1..Len(ws) :
        /\ classify(ws[j].tags) = "building"
        /\ resolveWayCoords(ws[j].nodes, nm).valid
        /\ Len(ws[j].nodes) >= 3}

OutsideBuildingWays(ws, nm, b) ==
    {j \in ResolvedBuildingWays(ws, nm) :
        OutsideOneSide(resolveWayCoords(ws[j].nodes, nm).coords, b)}

\* the outer member ways of the building relations, as often as they are members
BuildingRelationMembers(els) ==
    Let(RelationsOf(els), LAMBDA rels :
        {<<i, k>> \in (1..Len(rels)) \X (1..5) :
            classify(rels[i].tags) = "building" /\ k <= Len(OuterRefs(rels[i]))})

\* C17: a building way all of whose nodes lie beyond one side of the bounds is
\* projected and clipped to the empty polygon and gives no building: the
\* buildings of the scene are no more than the other building ways and the
\* outer members of building relations.
C17_OutsideBuildingDropped ==
    pc = "done" =>
        \E ws \in {WaysUpTo(elements, Len(elements))},
           nm \in {NodeMapUpTo(elements, Len(elements))},
           sc \in {computeScale(bounds)} :
            /\ \A j \in OutsideBuildingWays(ws, nm, bounds) :
                  projectPolygon(resolveWayCoords(ws[j].nodes, nm).coords, bounds,
                                 sc.scaleMMperM, sc.modelWidthMm, sc.modelDepthMm) = <<>>
            /\ (IF scene.null THEN 0 ELSE Len(scene.buildings))
                  <= Cardinality(ResolvedBuildingWays(ws, nm)
                                 \ OutsideBuildingWays(ws, nm, bounds))
                     + Cardinality(BuildingRelationMembers(elements))

\* C17 witness: a triangle east of the selection and a building inside it,
\* parsed to a scene of one building
C17_Witness ==
    /\ pc = "done"
    /\ \E i \in 1..Len(elements) :
          /\ elements[i].type = "way"
          /\ elements[i].nodes = <<6, 10, 12, 6>>
          /\ classify(elements[i].tags) = "building"
    /\ ~scene.null
    /\ Len(scene.buildings) = 1


(***************************************************************************)
(* Open area ways, for the elements of SpecParse                           *)
(***************************************************************************)
\* way.nodes.length > 2 and its first node is its last
ClosedWay(way) == Len(way.nodes) > 2 /\ way.nodes[1] = way.nodes[Len(way.nodes)]

\* the ways of the class that resolve to 3 or more coordinates and whose
\* projection keeps 3 or more vertices, by their place in ways.values()
ProjectedAreaWays(ws, nm, b, class) ==
    Let(computeScale(b), LAMBDA sc :
        {j \in 1..Len(ws) :
            /\ classify(ws[j].tags) = class
            /\ resolveWayCoords(ws[j].nodes, nm).valid
            /\ Len(ws[j].nodes) >= 3
            /\ Len(projectPolygon(resolveWayCoords(ws[j].nodes, nm).coords, b,
                                  sc.scaleMMperM, sc.modelWidthMm, sc.modelDepthMm)) >= 3})

\* the elements have no relation and no coastline way
OnlyPlainWays(els) ==
    \A i \in 1..Len(els) :
        /\ els[i].type # "relation"
        /\ els[i].type = "way" => classify(els[i].tags) # "coastline"

SceneCount(sc, field) == IF sc.null THEN 0 ELSE Len(sc[field])

\* C18 as stated: a building or water way that is not closed yields no
\* feature: without relations and coastlines, the scene has no more buildings
\* than closed building ways and no more water than closed water ways.
C18_Original ==
    (pc = "done" /\ OnlyPlainWays(elements)) =>
        \E ws \in {WaysUpTo(elements, Len(elements))} :
            /\ SceneCount(scene, "buildings")
                  <= Cardinality({j \in 1..Len(ws) :
                                    classify(ws[j].tags) = "building" /\ ClosedWay(ws[j])})
            /\ SceneCount(scene, "water")
                  <= Cardinality({j \in 1..Len(ws) :
                                    classify(ws[j].tags) = "water" /\ ClosedWay(ws[j])})

\* C18: a water way that is not closed yields no feature; a building way
\* yields a building whenever its projection keeps 3 vertices, closed or not.
\* Without relations and coastlines, the water of the scene is the closed
\* water ways and the buildings are the building ways whose projection keeps
\* 3 or more vertices.
C18_OpenWaterDropped ==
    (pc = "done" /\ OnlyPlainWays(elements)) =>
        \E ws \in {WaysUpTo(elements, Len(elements))},
           nm \in {NodeMapUpTo(elements, Len(elements))} :
            /\ SceneCount(scene, "water")
                  = Cardinality({j \in ProjectedAreaWays(ws, nm, bounds, "water") :
                                    ClosedWay(ws[j])})
            /\ SceneCount(scene, "buildings")
                  = Cardinality(ProjectedAreaWays(ws, nm, bounds, "building"))

\* C18 witness: an open water way and an open building way inside the
\* selection, parsed to a scene of one building and no water
C18_Witness ==
    /\ pc = "done"
    /\ OnlyPlainWays(elements)
    /\ \E i, j \in 1..Len(elements) :
          /\ elements[i].type = "way" /\ elements[j].type = "way"
          /\ classify(elements[i].tags) = "water" /\ ~ClosedWay(elements[i])
          /\ classify(elements[j].tags) = "building" /\ ~ClosedWay(elements[j])
    /\ ~scene.null
    /\ Len(scene.buildings) = 1
    /\ Len(scene.water) = 0


(***************************************************************************)
(* buildingHeightMm (geometryUtils.ts) in binary64, applied to one tag     *)
(* set, one scale and one value of Math.random                             *)
(***************************************************************************)
\* the binary64 nearest to a rational of small numerator and denominator, as
\* parseFloat and parseInt return it for the digits they read
ToDouble(r) == FDiv(FInt(r[1]), FInt(r[2]))

\* buildingHeightMm64 looking at building:levels before height
buildingHeightMm64LevelsFirst(tags, scale, rnd) ==
    Let(IF HasChars(tags, "building:levels")
        THEN Let(parseInt(tags["building:levels"]), LAMBDA levels :
                 [metres |-> FMul(IF IsNaN(levels) THEN FInt(3) ELSE ToDouble(levels), FInt(3)),
                  randomCalls |-> 0])
        ELSE IF HasChars(tags, "height")
        THEN Let(parseFloat(tags["height"]), LAMBDA metres :
                 [metres |-> IF IsNaN(metres) THEN FInt(10) ELSE ToDouble(metres),
                  randomCalls |-> 0])
        ELSE [metres |-> FAdd(FInt(6), FMul(rnd, FInt(12))), randomCalls |-> 1],
        LAMBDA h :
            [heightMm |-> FMin(FMul(h.metres, scale), FInt(MAX_BUILDING_HEIGHT_MM)),
             metres |-> h.metres, randomCalls |-> h.randomCalls])

\* buildingHeightMm, where rnd is what Math.random returns if it is called:
\* the result, the metres it was computed from and the calls of Math.random
buildingHeightMm64(tags, scale, rnd) ==
    Let(IF HasChars(tags, "height")
        THEN Let(parseFloat(tags["height"]), LAMBDA metres :
                 [metres |-> IF IsNaN(metres) THEN FInt(10) ELSE ToDouble(metres),
                  randomCalls |-> 0])
        ELSE IF HasChars(tags, "building:levels")
        THEN Let(parseInt(tags["building:levels"]), LAMBDA levels :
                 [metres |-> FMul(IF IsNaN(levels) THEN FInt(3) ELSE ToDouble(levels), FInt(3)),
                  randomCalls |-> 0])
        ELSE [metres |-> FAdd(FInt(6), FMul(rnd, FInt(12))), randomCalls |-> 1],
        LAMBDA h :
            [heightMm |-> FMin(FMul(h.metres, scale), FInt(MAX_BUILDING_HEIGHT_MM)),
             metres |-> h.metres, randomCalls |-> h.randomCalls])

\* values of the height and of the building:levels tag
HeightValues == {<<>>, <<"1", "2">>, <<"9", ".", "5">>, <<"-", "3">>, <<"t", "a", "l", "l">>}
LevelsValues == {<<>>, <<"3">>, <<"0">>, <<"x">>}

HeightTagSets ==
    {h @@ l : h \in {NoTags} \cup {"height" :> v : v \in HeightValues},
              l \in {NoTags} \cup {"building:levels" :> v : v \in LevelsValues}}

\* scales: 1/8, 1 and 4 mm per metre
HeightScales == {FDyadic(1, 3), FInt(1), FInt(4)}

\* values of Math.random: 0, 1/2, and the two binary64 values nearest to 1,
\* 1 - 2^-52 and 1 - 2^-53
RandomValues ==
    {FZero, FDyadic(1, 1), FSub(FInt(1), FDyadic(1, 52)), FSub(FInt(1), FDyadic(1, 53))}

HeightInit ==
    /\ ClipIdle /\ RingIdle /\ SeaIdle /\ BufferIdle /\ ScaleIdle /\ HookIdle
    /\ NoNodeMap /\ NoBounds
    /\ elements = <<>> /\ scene = <<>>
    /\ tagSet \in HeightTagSets
    /\ heightScale \in HeightScales
    /\ randoms \in RandomValues
    /\ classified = <<>>
    /\ heightResult = <<>>
    /\ pc = "start"

Height ==
    /\ pc = "start"
    /\ pc' = "done"
    /\ heightResult' = buildingHeightMm64(tagSet, heightScale, randoms)
    /\ UNCHANGED <<tagSet, classified, heightScale, clipVars, ringVars, seaVars, bufferVars,
                   scaleVars, parseVars, hookVars, nodeMap, bounds>>

SpecHeight == HeightInit /\ [][Height]_vars


\* the metres that the values of the height tag stand for: 10 for one that
\* is not a number
HeightMetres(v) ==
    CASE v = <<"1", "2">> -> FInt(12)
      [] v = <<"9", ".", "5">> -> FDyadic(19, 1)
      [] v = <<"-", "3">> -> FInt(-3)
      [] v = <<"t", "a", "l", "l">> -> FInt(10)

\* the metres that the values of the building:levels tag stand for: 3 levels
\* for one that is not a number
LevelsMetres(v) ==
    CASE v = <<"3">> -> FInt(9)
      [] v = <<"0">> -> FZero
      [] v = <<"x">> -> FInt(9)

\* the parts of C19 that do not bound the random height from above: the
\* height tag first, then the levels, Math.random called only without both,
\* and the result metres times scale, at most 40
HeightPriority ==
    /\ HasChars(tagSet, "height") =>
          /\ heightResult.metres = HeightMetres(tagSet["height"])
          /\ heightResult.randomCalls = 0
    /\ (~HasChars(tagSet, "height") /\ HasChars(tagSet, "building:levels")) =>
          /\ heightResult.metres = LevelsMetres(tagSet["building:levels"])
          /\ heightResult.randomCalls = 0
    /\ LacksHeight(tagSet) =>
          /\ heightResult.randomCalls = 1
          /\ FLe(FInt(6), heightResult.metres)
    /\ FLe(heightResult.heightMm, FInt(MAX_BUILDING_HEIGHT_MM))
    /\ heightResult.heightMm \in {FMul(heightResult.metres, heightScale),
                                  FInt(MAX_BUILDING_HEIGHT_MM)}

\* C19 as stated: the height tag first, then building:levels times 3, then a
\* random value of at least 6 and less than 18 metres, Math.random being
\* called only without both tags; the result never exceeds 40.
C19_Original ==
    pc = "done" =>
        /\ HeightPriority
        /\ LacksHeight(tagSet) => FLt(heightResult.metres, FInt(18))

\* C19: the height tag first, then building:levels times 3, then a random
\* value of at least 6 and at most 18 metres, Math.random being called only
\* without both tags; the result never exceeds 40.
C19_HeightPriority ==
    pc = "done" =>
        /\ HeightPriority
        /\ LacksHeight(tagSet) => FLe(heightResult.metres, FInt(18))

\* C19 witness: without tags and with the largest value of Math.random, a
\* height of 18 metres that the scale 4 takes to the cap
C19_Witness ==
    /\ pc = "done"
    /\ LacksHeight(tagSet)
    /\ heightResult.metres = FInt(18)
    /\ heightScale = FInt(4)
    /\ heightResult.heightMm = FInt(MAX_BUILDING_HEIGHT_MM)


(***************************************************************************)
(* Railways, for the elements of SpecParse                                 *)
(***************************************************************************)
\* every [lat, lon] lies inside or on the bounds
InsideBounds(coords, b) ==
    \A i \in 1..Len(coords) :
        /\ RLe(b[1], coords[i][1]) /\ RLe(coords[i][1], b[3])
        /\ RLe(b[2], coords[i][2]) /\ RLe(coords[i][2], b[4])

\* the railway ways of 2 or more nodes, all in the node map and inside the bounds
RailwaysInside(els, b) ==
    Let(WaysUpTo(els, Len(els)), LAMBDA ws :
    Let(NodeMapUpTo(els, Len(els)), LAMBDA nm :
        {j \in 1..Len(ws) :
            /\ classify(ws[j].tags) = "railway"
            /\ Len(ws[j].nodes) >= 2
            /\ resolveWayCoords(ws[j].nodes, nm).valid
            /\ InsideBounds(resolveWayCoords(ws[j].nodes, nm).coords, b)}))

\* C20: the half-width of a railway strip is a positive number, so a railway
\* way with 2 or more resolvable nodes inside the bounds yields a road feature
\* of kind railway.
C20_RailwayStrip ==
    (pc = "done" /\ RailwaysInside(elements, bounds) # {}) =>
        /\ ~scene.null
        /\ \E i \in 1..Len(scene.roads) : scene.roads[i].kind = "railway"

(***************************************************************************)
(* Groups of member ways, for the member ways of SpecRings                 *)
(***************************************************************************)
WayEnds(way) == {way[1], way[Len(way)]}

\* the ways (by position) that share an end node with a way of S, and so on
RECURSIVE GroupOf(_, _)
GroupOf(S, ways) ==
    LET more == {j \in 1..Len(ways) :
                    \E i \in S : WayEnds(ways[i]) \cap WayEnds(ways[j]) # {}}
    IN  IF more \subseteq S THEN S ELSE GroupOf(S \cup more, ways)

Groups(ways) == {GroupOf({i}, ways) : i \in 1..Len(ways)}

\* the number of way ends at node n, a closed way having both its ends there
EndsAt(ways, n) ==
    Cardinality({i \in 1..Len(ways) : ways[i][1] = n})
    + Cardinality({i \in 1..Len(ways) : ways[i][Len(ways[i])] = n})

\* every end node is the end of exactly two way ends: each group is one loop
SimpleLoops(ways) ==
    \A i \in 1..Len(ways) : \A n \in WayEnds(ways[i]) : EndsAt(ways, n) = 2

Orders(n) == {f \in [1..n -> 1..n] : \A i, j \in 1..n : f[i] = f[j] => i = j}

Permuted(ways, f) == [i \in 1..Len(ways) |-> ways[f[i]]]

\* the closed ring r started at its k-th point
Rotated(r, k) ==
    [i \in 1..Len(r) |-> r[((i + k - 2) % (Len(r) - 1)) + 1]]

\* the same ring, whatever its first point and its direction
SameRing(r, q) ==
    \/ r = q
    \/ r = Reverse(q)
    \/ /\ Len(r) = Len(q) /\ Len(r) >= 2
       /\ r[1] = r[Len(r)] /\ q[1] = q[Len(q)]
       /\ \E k \in 1..(Len(r) - 1) : r = Rotated(q, k) \/ r = Rotated(Reverse(q), k)

\* the same rings, whatever their order
SameRings(rs, qs) ==
    /\ Len(rs) = Len(qs)
    /\ \E f \in Orders(Len(rs)) : \A i \in 1..Len(rs) : SameRing(rs[i], qs[f[i]])

\* C21 as stated: for all member ways there is one chain per group of ways
\* joined through shared end nodes, and listing the ways in another order
\* gives the same rings.
C21_Original ==
    pc = "done" =>
        /\ Len(AssembleChains(memberWays)) = Cardinality(Groups(memberWays))
        /\ \A f \in Orders(Len(memberWays)) :
              SameRings(rings, assembleRings(Permuted(memberWays, f), nodeMap))

\* C21 amended: when every end node is shared by exactly two way ends, there
\* is one chain per group of ways joined through shared end nodes, every chain
\* is closed, and listing the ways in another order gives the same rings up to
\* the point a ring starts at and its direction.
C21_OneRingPerLoop ==
    (pc = "done" /\ SimpleLoops(memberWays)) =>
        \E chains \in {AssembleChains(memberWays)} :
            /\ Len(chains) = Cardinality(Groups(memberWays))
            /\ \A i \in 1..Len(chains) : chains[i][1] = chains[i][Len(chains[i])]
            /\ \A f \in Orders(Len(memberWays)) :
                  SameRings(rings, assembleRings(Permuted(memberWays, f), nodeMap))

\* C21 witness: two loops, one of them made of two ways that meet head to head
\* and are listed on either side of the other loop, and two rings returned
C21_Witness ==
    /\ pc = "done"
    /\ nodeMap = NodeCoord
    /\ memberWays = <<(<<1, 2, 3>>), (<<4, 5, 2, 4>>), (<<1, 4, 3>>)>>
    /\ SimpleLoops(memberWays)
    /\ Len(rings) = 2

(***************************************************************************)
(* Building relations, for the elements of SpecParse                       *)
(***************************************************************************)
\* the number of rings that the outer member ways of the building relations
\* from the i-th on are assembled to, counting those whose projection keeps 3
\* or more vertices
RECURSIVE AssembledBuildingRings(_, _, _, _, _, _)
AssembledBuildingRings(rels, i, ws, nm, b, sc) ==
    IF i > Len(rels) THEN 0
    ELSE (IF classify(rels[i].tags) = "building"
          THEN Len(ProjectedRings(
                       assembleRings(NodesOf(MemberWays(rels[i], ws, "outer")), nm), b, sc))
          ELSE 0)
         + AssembledBuildingRings(rels, i + 1, ws, nm, b, sc)

\* C22: the outer member ways of a building relation are stitched into rings
\* as those of a water relation are, and the relation yields one building per
\* assembled ring: the buildings of the scene are as many as the building ways
\* whose projection keeps 3 vertices and the rings assembled for the building
\* relations.
C22_BuildingRingsAssembled ==
    pc = "done" =>
        \E ws \in {WaysUpTo(elements, Len(elements))},
           nm \in {NodeMapUpTo(elements, Len(elements))} :
            SceneCount(scene, "buildings")
                = Cardinality(ProjectedAreaWays(ws, nm, bounds, "building"))
                  + AssembledBuildingRings(RelationsOf(elements), 1, ws, nm, bounds,
                                           computeScale(bounds))

(***************************************************************************)
(* Coastline chains, for the coastline ways of SpecSea                     *)
(***************************************************************************)
\* the orders in which some of n ways can be taken, each way at most once
WayOrders(n) ==
    {s \in SeqsUpTo(1..n, n) : Len(s) >= 1 /\ \A i, j \in 1..Len(s) : s[i] = s[j] => i = j}

\* the ways taken in the order, each after the first without its first node
RECURSIVE JoinWays(_, _)
JoinWays(ways, order) ==
    IF Len(order) = 1 THEN ways[order[1]]
    ELSE ways[order[1]] \o Tail(JoinWays(ways, Tail(order)))

\* each way of the order starts at the node the one before it ends at
HeadToTail(ways, order) ==
    \A k \in 1..(Len(order) - 1) :
        ways[order[k]][Len(ways[order[k]])] = ways[order[k + 1]][1]

\* the orders of ways that the chain is, each way in its own direction
MadeOf(chain, ways) ==
    {order \in WayOrders(Len(ways)) :
        HeadToTail(ways, order) /\ JoinWays(ways, order) = chain}

RECURSIVE SumOfSteps(_)
SumOfSteps(chains) ==
    IF Len(chains) = 0 THEN 0 ELSE Len(Head(chains)) - 1 + SumOfSteps(Tail(chains))

\* C23: every chain of buildSeaPolygons is some of the coastline ways, each in
\* its own direction, one after the other, joined only where one way ends at
\* the node the next starts at; every way is in a chain and none is in two.
C23_FragmentsKeepDirection ==
    pc = "done" =>
        \E chains \in {CoastChains(coastlineWays)} :
            /\ \A c \in 1..Len(chains) : MadeOf(chains[c], coastlineWays) # {}
            /\ \A i \in 1..Len(coastlineWays) :
                  \E c \in 1..Len(chains) :
                      \E order \in MadeOf(chains[c], coastlineWays) :
                          \E k \in 1..Len(order) : order[k] = i
            /\ SumOfSteps(chains) = SumOfSteps(coastlineWays)

\* C23 witness: the way [5,7] listed before the way [6,5] that leads to it,
\* chained to [6,5,7] by putting the second before the first, and the sea
\* polygon of the segment that enters in the east and leaves in the west
C23_Witness ==
    /\ pc = "done"
    /\ nodeMap = NodeCoord
    /\ coastlineWays = <<(<<5, 7>>), (<<6, 5>>)>>
    /\ CoastChains(coastlineWays) = <<(<<6, 5, 7>>)>>
    /\ Len(seaClosings) = 1
    /\ seaClosings[1].entry = Pt(0, 2)
    /\ seaClosings[1].exit = Pt(0, -2)

(***************************************************************************)
(* Closed coastline chains, for the coastline ways of SpecSea              *)
(***************************************************************************)
\* twice the area that the ring encloses with x = longitude and y = latitude,
\* positive when the ring runs counter-clockwise (the shoelace sum)
RECURSIVE Shoelace(_, _)
Shoelace(coords, i) ==
    IF i >= Len(coords) THEN R(0)
    ELSE RAdd(RSub(RMul(coords[i][2], coords[i + 1][1]),
                   RMul(coords[i + 1][2], coords[i][1])),
              Shoelace(coords, i + 1))

Clockwise(coords) == RLt(Shoelace(coords, 1), R(0))

\* the chains that are closed and have all their nodes in the node map
ClosedChains(chains, nm) ==
    SelectSeq(chains, LAMBDA c :
        c[1] = c[Len(c)] /\ Len(c) >= 2 /\ \A k \in 1..Len(c) : c[k] \in DOMAIN nm)

\* C24: a closed coastline chain is kept as a water polygon, with the
\* coordinates of its nodes, if and only if it runs clockwise with longitude
\* as x and latitude as y; a counter-clockwise closed chain gives no polygon.
C24_ClosedChainKeptIffClockwise ==
    pc = "done" =>
        \E closed \in {ClosedChains(CoastChains(coastlineWays), nodeMap)} :
            /\ \A c \in 1..Len(closed) :
                  \E coords \in {[k \in 1..Len(closed[c]) |-> nodeMap[closed[c][k]]]} :
                      Clockwise(coords) <=> \E p \in 1..Len(seaPolygons) : seaPolygons[p] = coords
            /\ Len(seaPolygons) - Len(seaClosings)
                  = Cardinality({c \in 1..Len(closed) :
                        Clockwise([k \in 1..Len(closed[c]) |-> nodeMap[closed[c][k]]])})

\* C24 witness: a triangle run counter-clockwise and a square run clockwise,
\* and only the square kept
C24_Witness ==
    /\ pc = "done"
    /\ nodeMap = NodeCoord
    /\ coastlineWays = <<(<<5, 3, 2, 5>>), (<<1, 2, 3, 4, 1>>)>>
    /\ CoastChains(coastlineWays) = coastlineWays
    /\ seaPolygons = <<Coords(<<1, 2, 3, 4, 1>>)>>

(***************************************************************************)
(* Edges through the selection, for the coastline ways of SpecSea          *)
(***************************************************************************)
RMaxOf(S) == CHOOSE x \in S : \A y \in S : RLe(y, x)
RMinOf(S) == CHOOSE x \in S : \A y \in S : RLe(x, y)

\* for the edge from p to q, both [lat, lon]: the conditions t * step <= room
\* that a point p + t (q - p) inside the bounds meets, one per side
SideConditions(p, q, b) ==
    {[step |-> RSub(p[2], q[2]), room |-> RSub(p[2], b[2])],
     [step |-> RSub(q[2], p[2]), room |-> RSub(b[4], p[2])],
     [step |-> RSub(p[1], q[1]), room |-> RSub(p[1], b[1])],
     [step |-> RSub(q[1], p[1]), room |-> RSub(b[3], p[1])]}

\* the part of the edge from p to q inside the bounds: from p + from (q - p)
\* to p + to (q - p), nothing when some is false or from > to
InsidePart(p, q, b) ==
    LET cs == SideConditions(p, q, b)
    IN  [some |-> \A c \in cs : c.step = R(0) => RGe(c.room, R(0)),
         from |-> RMaxOf({R(0)} \cup {RDiv(c.room, c.step) : c \in {d \in cs : RLt(d.step, R(0))}}),
         to |-> RMinOf({R(1)} \cup {RDiv(c.room, c.step) : c \in {d \in cs : RGt(d.step, R(0))}})]

PointAt(p, q, t) ==
    <<RAdd(p[1], RMul(t, RSub(q[1], p[1]))), RAdd(p[2], RMul(t, RSub(q[2], p[2])))>>

\* the edge starts and ends outside the bounds and runs through them
PassesThrough(p, q, b) ==
    /\ ~InBounds(p, b) /\ ~InBounds(q, b)
    /\ InsidePart(p, q, b).some
    /\ RLt(InsidePart(p, q, b).from, InsidePart(p, q, b).to)

\* the open chains that have all their nodes in the node map, as coordinates
OpenChainCoords(chains, nm) ==
    {[k \in 1..Len(chains[c]) |-> nm[chains[c][k]]] :
        c \in {d \in 1..Len(chains) :
                  /\ chains[d][1] # chains[d][Len(chains[d])]
                  /\ \A k \in 1..Len(chains[d]) : chains[d][k] \in DOMAIN nm}}

\* C25: every crossing of the boundary by an open chain is detected, those of
\* an edge that starts and ends outside the bounds and runs through them as
\* well: the part of such an edge inside the bounds is a segment, entered at
\* the first crossing and left at the second, and gives a sea polygon.
C25_PassingEdgeSplit ==
    pc = "done" =>
        \A coords \in OpenChainCoords(CoastChains(coastlineWays), nodeMap) :
            \A i \in 1..(Len(coords) - 1) :
                PassesThrough(coords[i], coords[i + 1], bounds) =>
                    \E part \in {InsidePart(coords[i], coords[i + 1], bounds)} :
                        \E s \in 1..Len(seaClosings) :
                            /\ seaClosings[s].entry = PointAt(coords[i], coords[i + 1], part.from)
                            /\ seaClosings[s].exit = PointAt(coords[i], coords[i + 1], part.to)

(***************************************************************************)
(* Entries and exits, for the coastline ways of SpecSea                    *)
(***************************************************************************)
\* the [lat, lon] point lies on a side of the bounds
OnPerimeter(pt, b) ==
    /\ InBounds(pt, b)
    /\ pt[1] = b[1] \/ pt[1] = b[3] \/ pt[2] = b[2] \/ pt[2] = b[4]

\* the places j where the chain leaves the bounds after coords[j], having
\* entered them before: some point before coords[j] is outside
EnteredExits(coords, b) ==
    {j \in 1..(Len(coords) - 1) :
        /\ InBounds(coords[j], b)
        /\ ~InBounds(coords[j + 1], b)
        /\ \E i \in 1..(j - 1) : ~InBounds(coords[i], b)}

\* the points of the chain in the bounds between the entry before coords[j]
\* and the exit after it
InsideRun(coords, j, b) ==
    LET i == CHOOSE k \in 1..j :
                 /\ \A m \in k..j : InBounds(coords[m], b)
                 /\ k > 1 => ~InBounds(coords[k - 1], b)
    IN  [m \in 1..(j - i + 1) |-> coords[i + m - 1]]

NoFeature(els, b) ==
    \E ws \in {WaysUpTo(els, Len(els))}, nm \in {NodeMapUpTo(els, Len(els))} :
        /\ ProjectedAreaWays(ws, nm, b, "building") = {}
        /\ {j \in ProjectedAreaWays(ws, nm, b, "water") : ClosedWay(ws[j])} = {}
        /\ \A j \in 1..Len(ws) : classify(ws[j].tags) \in {"building", "water", "none"}
        /\ RelationsOf(els) = <<>>

WithoutFeature == [els \in ResponsePool, b \in ParseBounds |-> NoFeature(els, b)]

\* what call c does when its fetch resolves with elements that parse to
\* parsed, the call not being superseded
ResolvedAs(c, parsed) ==
    IF ~parsed.null
    THEN /\ Len(parsed.buildings) + Len(parsed.water) + Len(parsed.roads) > 0
         /\ sceneData' = [null |-> FALSE, mock |-> FALSE, scene |-> parsed]
         /\ loading' = FALSE
         /\ c \notin DOMAIN calls'
    ELSE IF calls[c].attempt < MAX_RETRIES
    THEN /\ c \in DOMAIN calls'
         /\ calls'[c].attempt = calls[c].attempt + 1
         /\ calls'[c].at = "timer"
         /\ retryAttempt' = calls[c].attempt + 1
         /\ UNCHANGED <<sceneData, loading>>
    ELSE /\ calls[c].fetches = 11
         /\ sceneData' = [null |-> FALSE, mock |-> TRUE, scene |-> MockScene[calls[c].bounds]]
         /\ loading' = FALSE
         /\ c \notin DOMAIN calls'

\* C27: parseElements returns null for a pass without buildings, water and
\* roads and a scene when one of the three lists is not empty; on null the
\* hook goes on to the next attempt, and after the 11th attempt it stores mock
\* data as sceneData.  In both cases error stays as it is.
C27_NullMeansRetryThenMock ==
    [][\A c \in DOMAIN calls :
          (/\ calls[c].at = "fetch" /\ ~calls[c].aborted
           /\ lastStep'.call = c /\ lastStep'.event = "resolved")
          => /\ error' = error
             /\ lastStep'.parsed
             /\ \E els \in ResponsePool :
                   \E parsed \in {ParsedResponse[els, calls[c].bounds]} :
                       /\ WithoutFeature[els, calls[c].bounds] => parsed.null
                       /\ ResolvedAs(c, parsed)]_vars

\* C27 witness: the 11th fetch of the latest call has resolved with elements
\* without a feature, and sceneData is mock data without an error
C27_Witness ==
    /\ lastStep.call = abortRef
    /\ lastStep.event = "resolved"
    /\ retryAttempt = MAX_RETRIES
    /\ ~sceneData.null
    /\ sceneData.mock
    /\ error.null
    /\ ~loading

(***************************************************************************)
(* The hook under fairness: every timer fires, and every fetch resolves or *)
(* rejects                                                                 *)
(***************************************************************************)
\* a pending callback of call c runs
Progress(c) ==
    /\ c \in DOMAIN calls
    /\ \/ TimerFires(c)
       \/ \E els \in ResponsePool : FetchResolves(c, els)
       \/ FetchRejects(c)
    /\ UNCHANGED <<tagVars, pc, clipVars, ringVars, seaVars, bufferVars, scaleVars, parseVars,
                   nodeMap, bounds>>

\* the steps of the hook when fetchData is only called for one selection
OneSelectionNext ==
    /\ \/ FetchData(SelectionBounds)
       \/ \E c \in DOMAIN calls : TimerFires(c)
       \/ \E c \in DOMAIN calls, els \in ResponsePool : FetchResolves(c, els)
       \/ \E c \in DOMAIN calls : FetchRejects(c)
    /\ UNCHANGED <<tagVars, pc, clipVars, ringVars, seaVars, bufferVars, scaleVars, parseVars,
                   nodeMap, bounds>>

SpecHookFair ==
    HookInit /\ [][OneSelectionNext]_vars /\ \A c \in 1..MaxCalls : WF_vars(Progress(c))

\* what the latest call has left when it has returned
Settled ==
    /\ ~loading
    /\ ~sceneData.null
    /\ IF sceneData.mock
       THEN /\ retryAttempt = MAX_RETRIES
            /\ \E b \in ParseBounds : sceneData.scene = MockScene[b]
       ELSE /\ error.null
            /\ \E els \in ResponsePool, b \in ParseBounds :
                  /\ ~ParsedResponse[els, b].null
                  /\ sceneData.scene = ParsedResponse[els, b]

\* C28: when every timer fires and every fetch resolves or rejects, a call of
\* fetchData that no newer call supersedes returns, with loading false and
\* sceneData not null: the scene parsed at the first attempt that gave usable
\* data, or mock data after the 11th attempt.
C28_ChainSettles ==
    /\ \A c \in 1..MaxCalls :
          (abortRef = c /\ loading)
              ~> (abortRef # c \/ (c \notin DOMAIN calls /\ Settled))
    /\ [](abortRef > 0 /\ abortRef \notin DOMAIN calls => Settled)

\* C28 witness: the latest call has returned at its third attempt with a
\* parsed scene
C28_Witness ==
    /\ abortRef > 0
    /\ abortRef \notin DOMAIN calls
    /\ retryAttempt = 2
    /\ ~sceneData.null
    /\ ~sceneData.mock
    /\ ~loading

(***************************************************************************)
(* The error of the hook, for the calls of SpecHook                        *)
(***************************************************************************)
\* a step that changes error: a fetchData call, which sets it to null, or the
\* rejection of the 11th fetch of the latest call, which sets the message
ErrorSetOnlyAtTheEnd ==
    error' # error =>
        \/ /\ error'.null
           /\ lastStep'.event = "fetchData"
        \/ /\ ~error'.null
           /\ lastStep'.event = "rejected"
           /\ lastStep'.call = abortRef
           /\ abortRef \in DOMAIN calls
           /\ ~calls[abortRef].aborted
           /\ calls[abortRef].attempt = MAX_RETRIES
           /\ calls[abortRef].fetches = 11

\* C29: error is not null only when the latest call has run its 11 attempts
\* and the last has thrown, sceneData then being mock data and loading false;
\* no other rejection, no pass without features and no step of a superseded
\* call sets error, and every fetchData call sets it to null.
C29_ErrorOnlyAfterLastAttempt ==
    /\ [](~error.null =>
             /\ abortRef > 0 /\ abortRef \notin DOMAIN calls
             /\ retryAttempt = MAX_RETRIES
             /\ ~sceneData.null /\ sceneData.mock
             /\ ~loading)
    /\ [][/\ ErrorSetOnlyAtTheEnd
          /\ abortRef' # abortRef => error'.null]_vars

\* C29 witness: the second call has ended with an error while the first,
\* superseded, is still waiting for its fetch
C29_Witness ==
    /\ ~error.null
    /\ abortRef = 2
    /\ DOMAIN calls = {1}
    /\ calls[1].aborted
    /\ sceneData.mock

(***************************************************************************)
(* Ways consumed, for the member ways of SpecRings                         *)
(***************************************************************************)
\* the chain to which the ways order[k], order[k + 1], ... are appended in
\* turn, each by the end that is the chain's tail and without that node;
\* ok is false when a way has neither end there
RECURSIVE Stitch(_, _, _, _)
Stitch(chain, ways, order, k) ==
    IF k > Len(order) THEN [ok |-> TRUE, chain |-> chain]
    ELSE LET tail == chain[Len(chain)]
             way == ways[order[k]]
         IN  IF tail = way[1]
             THEN Stitch(chain \o Tail(way), ways, order, k + 1)
             ELSE IF tail = way[Len(way)]
             THEN Stitch(chain \o Tail(Reverse(way)), ways, order, k + 1)
             ELSE [ok |-> FALSE, chain |-> chain]

\* the orders of ways that the chain is: the first as it is listed, the others
\* appended forward or reversed
StitchedOf(chain, ways) ==
    {order \in WayOrders(Len(ways)) :
        \E r \in {Stitch(ways[order[1]], ways, order, 2)} : r.ok /\ r.chain = chain}

\* C30: assembleRings ends, having used every member way once: every chain is
\* one way followed by ways appended forward or reversed without the shared
\* node, every way is in a chain and none in two, and the rings are the chains
\* of 3 or more nodes, in order, when no node is missing.
C30_EveryWayUsedOnce ==
    pc = "done" =>
        \E chains \in {AssembleChains(memberWays)} :
            /\ \A c \in 1..Len(chains) : StitchedOf(chains[c], memberWays) # {}
            /\ \A i \in 1..Len(memberWays) :
                  \E c \in 1..Len(chains) :
                      \E order \in StitchedOf(chains[c], memberWays) :
                          \E k \in 1..Len(order) : order[k] = i
            /\ SumOfSteps(chains) = SumOfSteps(memberWays)
            /\ Len(chains) <= Len(memberWays)
            /\ nodeMap = NodeCoord =>
                  rings = [i \in 1..Len(SelectSeq(chains, LAMBDA ch : Len(ch) >= 3)) |->
                              Coords(SelectSeq(chains, LAMBDA ch : Len(ch) >= 3)[i])]

\* C30 witness: three ways, the third appended reversed to the first and the
\* second left to a chain of its own, too short for a ring
C30_Witness ==
    /\ pc = "done"
    /\ nodeMap = NodeCoord
    /\ memberWays = <<(<<1, 2, 3>>), (<<4, 5>>), (<<1, 4, 3>>)>>
    /\ AssembleChains(memberWays) = <<(<<1, 2, 3, 4, 1>>), (<<4, 5>>)>>
    /\ rings = <<Coords(<<1, 2, 3, 4, 1>>)>>

=============================================================================
